---- MODULE Spec2Model ----
(***************************************************************************)
(* aries-rust: write-ahead log, ARIES-style recovery, buffer pool and      *)
(* transaction manager, modelled from src/src/log_mod/log_manager.rs,      *)
(* src/src/buffer/buffer_manager.rs and                                    *)
(* src/src/transaction/transaction.rs; the heap segment of slotted pages,  *)
(* modelled from src/src/heap/heap_segment.rs and                          *)
(* src/src/storage/slotted_page.rs; and the file abstraction, modelled     *)
(* from src/src/storage/file.rs.                                           *)
(*                                                                         *)
(* The log file is a byte sequence; records are framed and parsed as the   *)
(* code frames and parses them.  The buffer pool is a partial map from     *)
(* page ids to frames.  Operations whose outcome depends on HashMap or     *)
(* HashSet iteration order (eviction victim, order of flushes/discards)    *)
(* are nondeterministic over the orders the build can produce.             *)
(***************************************************************************)
EXTENDS Naturals, Integers, Sequences, FiniteSets, TLC

VARIABLES
    log_file,                   \* LogManager.log_file: the bytes of the log file
    current_offset,             \* LogManager.current_offset
    record_counts,              \* LogManager.record_counts (absent key = 0)
    txn_id_to_first_log_record, \* LogManager.txn_id_to_first_log_record
    frames,                     \* BufferManager.frames: PageID -> BufferFrame
    capacity,                   \* BufferManager.capacity
    next_txn_id,                \* TransactionManager.next_txn_id
    active_transactions,        \* TransactionManager.active_transactions
    page_locks,                 \* TransactionManager.page_locks
    last,                       \* the last operation called, its arguments and result
    calls,                      \* the calls the last operation made, in order
    pre_img,                    \* per txn and page it registered or modified: the page before
    crashed,                    \* the crash harness has discarded the pool and reset the log
    rec_runs,                   \* number of consecutive runs of recovery so far
    rec_first,                  \* the buffer pool as the first run of recovery left it
    heap,                       \* the HeapSegment and the bytes of its file
    slotted,                    \* a SlottedPage driven on its own
    files,                      \* a PosixFile and a MemoryFile driven in step
    written,                    \* per page: the bytes a client wrote and unfixed dirty
    pool_owner,                 \* the thread that has exclusive access to the pool
    frame_guards,               \* per frame whose mutex is locked: the thread holding it
    running                     \* per thread inside a pool operation: the call it makes

vars == <<log_file, current_offset, record_counts, txn_id_to_first_log_record,
          frames, capacity, next_txn_id, active_transactions, page_locks,
          last, calls, pre_img, crashed, rec_runs, rec_first, heap, slotted, files,
          written, pool_owner, frame_guards, running>>

logVars == <<log_file, current_offset, record_counts, txn_id_to_first_log_record>>
tmVars  == <<next_txn_id, active_transactions, page_locks>>
\* the clients of the buffer pool: what they wrote and the mutexes they hold
clientVars == <<written, pool_owner, frame_guards, running>>

---------------------------------------------------------------------------
(* Bounds of the model.                                                    *)

\* transactions a session starts (ids 0 .. MaxTxn-1)
MaxTxn == 2
\* page ids 1 .. NumPages
NumPages == 2
\* page_size handed to BufferManager::new
PageSize == 2
\* byte values written by clients: 1 .. MaxByte
MaxByte == 1
\* capacity handed to BufferManager::new: 1 .. MaxCapacity
MaxCapacity == 2
\* Update records appended in one session
MaxUpdates == 2
\* pins a client holds on one page
MaxPin == 1

\* threads sharing the buffer pool
MaxThreads == 2
\* records appended when the log manager is driven directly
MaxLog == 4
\* num_slots_per_page handed to HeapSegment::new
NumSlots == 1
\* page_size handed to HeapSegment::new: the serialized size of a page
\* with one record in its slot
HeapPageSize == 25
\* pages a session allocates in the heap segment (ids 0 .. MaxHeapPages-1)
MaxHeapPages == 2
\* max_pages_in_memory handed to HeapSegment::new: 0 .. MaxCached
MaxCached == 2
\* record ids stored in slots: 1 .. MaxRecord
MaxRecord == 1
\* slots of a slotted page driven on its own: 0 .. MaxSlots
MaxSlots == 3
\* a page id and a record id that take more than one byte
WideId == 65535
\* bytes of a file driven on its own: 0 .. MaxFileLen
MaxFileLen == 4
\* bytes of a block written to or read from such a file: 0 .. MaxBlock
MaxBlock == 2
\* entries of the heap segment's access queue (abort_transaction leaves
\* the entries of the pages it reloads in the queue and adds new ones)
MaxQueue == 3

PageIds == 1..NumPages
TxnIds  == 0..(MaxTxn - 1)

---------------------------------------------------------------------------
(* LogRecordType discriminants (the type byte of a record).                *)

BeginRecord == 0
CommitRecord == 1
AbortRecord == 2
UpdateRecord == 3
CheckpointRecord == 4

RecordTypes == {BeginRecord, CommitRecord, AbortRecord, UpdateRecord, CheckpointRecord}

\* size_of::<u64>() and the bytes of the type tag
U64Size == 8
TagSize == 1

---------------------------------------------------------------------------
(* Results.                                                                *)

Ok == [kind |-> "Ok", msg |-> ""]
BufferFull == [kind |-> "BufferFull", msg |-> ""]
IOError == [kind |-> "IOError", msg |-> "failed to fill whole buffer"]
Other(m) == [kind |-> "Other", msg |-> m]
Panic(m) == [kind |-> "panic", msg |-> m]

\* BuzzDBError variants returned by the heap segment and the slotted page
InvalidSlotIndex(i) == [kind |-> "InvalidSlotIndex", msg |-> ToString(i)]
EmptySlot(i) == [kind |-> "EmptySlot", msg |-> ToString(i)]
DeserializationError == [kind |-> "DeserializationError", msg |-> ""]
PageFull(page_id) == [kind |-> "PageFull", msg |-> ToString(page_id)]
PageNotFound(page_id) == [kind |-> "PageNotFound", msg |-> ToString(page_id)]
PageSizeExceeded(size, max) ==
    [kind |-> "PageSizeExceeded", msg |-> ToString(size) \o " > " \o ToString(max)]
\* the error get_page_mut returns for a page another transaction modifies
BeingModified(page_id, owner) ==
    Other("Page " \o ToString(page_id) \o " is being modified by transaction "
          \o ToString(owner))
\* the call never returns
Diverges == [kind |-> "diverges", msg |-> ""]

TxnNotFound(txn_id) == Other("Transaction " \o ToString(txn_id) \o " not found")
PageLocked(page_id, holder) ==
    Other("Page " \o ToString(page_id) \o " is locked by transaction " \o ToString(holder))

---------------------------------------------------------------------------
(* Bytes.                                                                  *)

RECURSIVE to_le_bytes(_, _)
\* u64::to_le_bytes: the k low-order bytes of n, least significant first
to_le_bytes(n, k) ==
    IF k = 0 THEN <<>> ELSE <<n % 256>> \o to_le_bytes(n \div 256, k - 1)

\* values at or above this are outside every input set of the model and are
\* folded into one class by from_le_bytes
U64Big == 16777216

RECURSIVE from_le_bytes(_)
\* u64::from_le_bytes
from_le_bytes(b) ==
    IF b = <<>> THEN 0
    ELSE LET hi == from_le_bytes(Tail(b))
         IN IF hi >= U64Big \div 256 THEN U64Big ELSE Head(b) + 256 * hi

Zeros(n) == [i \in 1..n |-> 0]
Fill(n, v) == [i \in 1..n |-> v]

\* data[offset .. offset+length].copy_from_slice(&img[0..length])
CopyFromSlice(data, offset, length, img) ==
    [i \in 1..Len(data) |->
        IF i > offset /\ i <= offset + length THEN img[i - offset] ELSE data[i]]

\* f without key k
Without(f, k) == [q \in (DOMAIN f) \ {k} |-> f[q]]
\* f with key k bound to v
With(f, k, v) == [q \in (DOMAIN f) \cup {k} |-> IF q = k THEN v ELSE f[q]]
EmptyMap == [q \in {} |-> 0]

---------------------------------------------------------------------------
(* BufferManager (src/src/buffer/buffer_manager.rs).  A pool is a function *)
(* from the resident page ids to frames; operations that can fail or that  *)
(* depend on iteration order return the set of their possible outcomes     *)
(* [res, frames].                                                          *)

\* BufferFrame::new
NewFrame == [data |-> Zeros(PageSize), is_dirty |-> FALSE, pin_count |-> 0]

Out(res, fr) == [res |-> res, frames |-> fr]

\* a faulty can_evict_page that never finds an unpinned frame
can_evict_none(fr) == FALSE

\* BufferManager::can_evict_page
can_evict_page(fr) == \E q \in DOMAIN fr : fr[q].pin_count = 0

\* BufferManager::flush_page: the write-back is not implemented and the
\* dirty flag is left as it is
flush_page(fr, page_id) == fr

\* a faulty evict_page that reports success and removes no frame
evict_nothing(fr) == {Out(Ok, fr)}

\* BufferManager::evict_page: the first unpinned frame in the map's iteration
\* order is flushed and removed; the order is unspecified
evict_page(fr) ==
    IF can_evict_page(fr)
    THEN {Out(Ok, Without(flush_page(fr, q), q)) : q \in {r \in DOMAIN fr : fr[r].pin_count = 0}}
    ELSE {Out(BufferFull, fr)}

\* BufferManager::fix_page
fix_page(fr, cap, page_id, is_exclusive) ==
    IF page_id \in DOMAIN fr
    THEN {Out(Ok, [fr EXCEPT ![page_id].pin_count = @ + 1])}
    ELSE IF Cardinality(DOMAIN fr) >= cap /\ ~can_evict_page(fr)
    THEN {Out(BufferFull, fr)}
    ELSE LET made == IF Cardinality(DOMAIN fr) >= cap THEN evict_page(fr) ELSE {Out(Ok, fr)}
             frame == [NewFrame EXCEPT !.pin_count = 1, !.is_dirty = is_exclusive]
         IN {IF m.res = Ok THEN Out(Ok, With(m.frames, page_id, frame)) ELSE m : m \in made}

\* BufferManager::unfix_page on the frame of a resident page; the dirty flag is
\* set before BufferFrame::unpin checks the pin count
unfix_page(fr, page_id, is_dirty) ==
    LET f1 == IF is_dirty THEN [fr EXCEPT ![page_id].is_dirty = TRUE] ELSE fr
    IN IF f1[page_id].pin_count = 0
       THEN Out(Other("Cannot unpin a page with pin count 0"), f1)
       ELSE Out(Ok, [f1 EXCEPT ![page_id].pin_count = @ - 1])

\* a faulty discard_page that removes the frame whatever its pin count
discard_page_unchecked(fr, page_id) == Out(Ok, Without(fr, page_id))

\* BufferManager::discard_page
discard_page(fr, page_id) ==
    IF page_id \in DOMAIN fr /\ fr[page_id].pin_count > 0
    THEN Out(Other("Cannot discard a pinned page"), fr)
    ELSE Out(Ok, Without(fr, page_id))

\* BufferManager::discard_all_pages: retain keeps the frames whose pin count is
\* greater than 0
discard_all_pages(fr) ==
    [q \in {r \in DOMAIN fr : fr[r].pin_count > 0} |-> fr[q]]

\* a faulty body that copies the image and leaves the page fixed
WriteImage_left_fixed(fr, cap, page_id, offset, length, img) ==
    {IF f.res # Ok THEN f
     ELSE Out(Ok, [f.frames EXCEPT ![page_id].data =
                      CopyFromSlice(@, offset, length, img)])
     : f \in fix_page(fr, cap, page_id, TRUE)}

\* fix the page exclusive, copy img over [offset, offset+length), unfix dirty:
\* the body shared by redo_phase, undo_phase and rollback_txn
WriteImage(fr, cap, page_id, offset, length, img) ==
    {IF f.res # Ok THEN f
     ELSE IF offset + length > PageSize THEN Out(Panic("range end index out of range"), f.frames)
     ELSE unfix_page([f.frames EXCEPT ![page_id].data =
                          CopyFromSlice(@, offset, length, img)], page_id, TRUE)
     : f \in fix_page(fr, cap, page_id, TRUE)}

---------------------------------------------------------------------------
(* LogManager (src/src/log_mod/log_manager.rs).  A log manager value is    *)
(* [log_file, current_offset, record_counts, txn_id_to_first_log_record].  *)

\* LogManager::new / the state `reset` leaves over a given file
NewLog(file) ==
    [log_file |-> file,
     current_offset |-> 0,
     record_counts |-> [ty \in RecordTypes |-> 0],
     txn_id_to_first_log_record |-> EmptyMap]

\* LogManager::reset
reset(lg, file) == NewLog(file)

\* LogManager::write_to_log: seek to current_offset, write_all, advance
write_to_log(lg, data) ==
    LET off == lg.current_offset
        n   == IF off + Len(data) > Len(lg.log_file) THEN off + Len(data) ELSE Len(lg.log_file)
    IN [lg EXCEPT
          !.log_file = [i \in 1..n |->
                          IF i > off /\ i <= off + Len(data) THEN data[i - off]
                          ELSE lg.log_file[i]],
          !.current_offset = off + Len(data)]

Count(lg, ty) == [lg EXCEPT !.record_counts[ty] = @ + 1]

\* LogManager::log_txn_begin
log_txn_begin(lg, txn_id) ==
    LET w == Count(write_to_log(write_to_log(lg, <<BeginRecord>>),
                                to_le_bytes(txn_id, U64Size)), BeginRecord)
    IN [w EXCEPT !.txn_id_to_first_log_record =
                    With(@, txn_id, w.current_offset - U64Size - TagSize)]

\* a faulty log_commit that appends the record and does not count it
log_commit_uncounted(lg, txn_id) ==
    LET w == write_to_log(write_to_log(lg, <<CommitRecord>>), to_le_bytes(txn_id, U64Size))
    IN [w EXCEPT !.txn_id_to_first_log_record = Without(@, txn_id)]

\* LogManager::log_commit
log_commit(lg, txn_id) ==
    LET w == Count(write_to_log(write_to_log(lg, <<CommitRecord>>),
                                to_le_bytes(txn_id, U64Size)), CommitRecord)
    IN [w EXCEPT !.txn_id_to_first_log_record = Without(@, txn_id)]

\* LogManager::log_update
log_update(lg, txn_id, page_id, length, offset, before_img, after_img) ==
    Count(write_to_log(write_to_log(write_to_log(write_to_log(write_to_log(
          write_to_log(write_to_log(lg, <<UpdateRecord>>),
                       to_le_bytes(txn_id, U64Size)),
                       to_le_bytes(page_id, U64Size)),
                       to_le_bytes(length, U64Size)),
                       to_le_bytes(offset, U64Size)),
                       before_img),
                       after_img), UpdateRecord)

\* LogManager::log_checkpoint: only the type byte is written
log_checkpoint(lg) == Count(write_to_log(lg, <<CheckpointRecord>>), CheckpointRecord)

\* LogManager::get_total_log_records_of_type
get_total_log_records_of_type(lg, ty) == lg.record_counts[ty]

\* LogManager::get_total_log_records
get_total_log_records(lg) ==
    lg.record_counts[BeginRecord] + lg.record_counts[CommitRecord]
      + lg.record_counts[AbortRecord] + lg.record_counts[UpdateRecord]
      + lg.record_counts[CheckpointRecord]

\* LogRecordData; an Option field is <<>> (None) or <<v>> (Some(v))
LogRecordData(ty, txn_id, log_offset) ==
    [record_type |-> ty, txn_id |-> txn_id,
     page_id |-> <<>>, length |-> <<>>, offset |-> <<>>,
     before_img |-> <<>>, after_img |-> <<>>,
     log_offset |-> log_offset, record_size |-> TagSize + U64Size]

Parsed(res, logs) == [res |-> res, logs |-> logs]

RECURSIVE ReadFrom(_, _, _, _)
\* the loop of LogManager::read_all_logs from record offset `offset`
ReadFrom(file, cur, offset, logs) ==
    IF ~(offset < cur) THEN Parsed(Ok, logs)
    ELSE IF offset + TagSize > Len(file) THEN Parsed(IOError, logs)
    ELSE IF file[offset + 1] \notin RecordTypes
    THEN Parsed(Panic("Invalid log record type: " \o ToString(file[offset + 1])), logs)
    ELSE IF offset + TagSize + U64Size > Len(file) THEN Parsed(IOError, logs)
    ELSE
      LET ty  == file[offset + 1]
          txn == from_le_bytes(SubSeq(file, offset + 2, offset + 9))
          rec == LogRecordData(ty, txn, offset)
      IN IF ty # UpdateRecord
         THEN ReadFrom(file, cur, offset + rec.record_size, Append(logs, rec))
         ELSE IF offset + 33 > Len(file) THEN Parsed(IOError, logs)
         ELSE
           LET page_id == from_le_bytes(SubSeq(file, offset + 10, offset + 17))
               length  == from_le_bytes(SubSeq(file, offset + 18, offset + 25))
               roff    == from_le_bytes(SubSeq(file, offset + 26, offset + 33))
           IN IF offset + 33 + 2 * length > Len(file) THEN Parsed(IOError, logs)
              ELSE
                LET upd == [rec EXCEPT
                              !.page_id = <<page_id>>,
                              !.length = <<length>>,
                              !.offset = <<roff>>,
                              !.before_img = <<SubSeq(file, offset + 34, offset + 33 + length)>>,
                              !.after_img = <<SubSeq(file, offset + 34 + length,
                                                     offset + 33 + 2 * length)>>,
                              !.record_size = @ + 8 + 8 + 8 + 2 * length]
                IN ReadFrom(file, cur, offset + upd.record_size, Append(logs, upd))

\* LogManager::read_all_logs
read_all_logs(lg) == ReadFrom(lg.log_file, lg.current_offset, 0, <<>>)

---------------------------------------------------------------------------
(* Rollback and ARIES recovery.  The phases fold over the parsed records;  *)
(* each carries the set of pools the fix_page calls so far can have left,  *)
(* an outcome whose res is not Ok being one where `?` has returned.        *)

IsUpdate(rec) == rec.record_type = UpdateRecord

\* the write of an Update record's image, continuing every Ok outcome
Continue(outs, cap, rec, img) ==
    UNION {IF o.res # Ok THEN {o}
           ELSE WriteImage(o.frames, cap, rec.page_id[1], rec.offset[1], rec.length[1], img)
           : o \in outs}

RECURSIVE AnalysisFrom(_, _, _)
\* LogManager::analysis_phase: (active_txns, committed_txns, aborted_txns)
AnalysisFrom(logs, i, sets) ==
    IF i > Len(logs) THEN sets
    ELSE LET t == logs[i].txn_id
             ty == logs[i].record_type
         IN AnalysisFrom(logs, i + 1,
              IF ty = BeginRecord
              THEN [sets EXCEPT !.active = @ \cup {t}]
              ELSE IF ty = CommitRecord
              THEN [sets EXCEPT !.active = @ \ {t}, !.committed = @ \cup {t}]
              ELSE IF ty = AbortRecord
              THEN [sets EXCEPT !.active = @ \ {t}, !.aborted = @ \cup {t}]
              ELSE sets)

analysis_phase(logs) ==
    AnalysisFrom(logs, 1, [active |-> {}, committed |-> {}, aborted |-> {}])

RECURSIVE RedoFrom(_, _, _, _, _, _)
RedoFrom(logs, i, committed_txns, active_txns, cap, outs) ==
    IF i > Len(logs) THEN outs
    ELSE RedoFrom(logs, i + 1, committed_txns, active_txns, cap,
           IF IsUpdate(logs[i])
              /\ (logs[i].txn_id \in committed_txns \/ logs[i].txn_id \in active_txns)
           THEN Continue(outs, cap, logs[i], logs[i].after_img[1])
           ELSE outs)

\* LogManager::redo_phase
redo_phase(logs, committed_txns, active_txns, fr, cap) ==
    RedoFrom(logs, 1, committed_txns, active_txns, cap, {Out(Ok, fr)})

RECURSIVE UndoFrom(_, _, _, _, _)
\* the reverse loop of undo_phase: the Begin of any transaction to undo
\* leaves the loop
UndoFrom(logs, i, transactions_to_undo, cap, outs) ==
    IF i = 0 THEN outs
    ELSE IF logs[i].txn_id \notin transactions_to_undo
    THEN UndoFrom(logs, i - 1, transactions_to_undo, cap, outs)
    ELSE IF IsUpdate(logs[i])
    THEN UndoFrom(logs, i - 1, transactions_to_undo, cap,
                  Continue(outs, cap, logs[i], logs[i].before_img[1]))
    ELSE IF logs[i].record_type = BeginRecord THEN outs
    ELSE UndoFrom(logs, i - 1, transactions_to_undo, cap, outs)

\* LogManager::undo_phase
undo_phase(logs, transactions_to_undo, outs, cap) ==
    UndoFrom(logs, Len(logs), transactions_to_undo, cap, outs)

\* LogManager::rollback_txn
rollback_txn(lg, txn_id, fr, cap) ==
    LET parsed == read_all_logs(lg)
    IN IF parsed.res # Ok THEN {Out(parsed.res, fr)}
       ELSE UndoFrom(parsed.logs, Len(parsed.logs), {txn_id}, cap, {Out(Ok, fr)})

\* LogManager::recovery
recovery(lg, fr, cap) ==
    LET parsed == read_all_logs(lg)
    IN IF parsed.res # Ok THEN {Out(parsed.res, fr)}
       ELSE LET a == analysis_phase(parsed.logs)
                redone == redo_phase(parsed.logs, a.committed, a.active, fr, cap)
            IN undo_phase(parsed.logs, a.active \cup a.aborted, redone, cap)

LogOut(res, lg, fr) == [res |-> res, lg |-> lg, frames |-> fr]

\* LogManager::log_abort
log_abort(lg, txn_id, fr, cap) ==
    LET w == Count(write_to_log(write_to_log(lg, <<AbortRecord>>),
                                to_le_bytes(txn_id, U64Size)), AbortRecord)
    IN {IF o.res # Ok THEN LogOut(o.res, w, o.frames)
        ELSE LogOut(Ok, [w EXCEPT !.txn_id_to_first_log_record = Without(@, txn_id)],
                    o.frames)
        : o \in rollback_txn(w, txn_id, fr, cap)}

---------------------------------------------------------------------------
(* TransactionManager (src/src/transaction/transaction.rs).  A manager     *)
(* value is [next_txn_id, active_transactions, page_locks]; the log        *)
(* manager and the buffer pool it drives are passed alongside.  An outcome *)
(* is [res, tm, lg, frames, calls], calls being the calls made on the      *)
(* buffer pool and the log manager, in order.                              *)

\* Transaction::new
NewTransaction == [modified_pages |-> {}, locked_pages |-> {}]

\* TransactionManager::new
NewTM == [next_txn_id |-> 0, active_transactions |-> EmptyMap, page_locks |-> EmptyMap]

Call(fn, arg) == [fn |-> fn, arg |-> arg]

TmOut(res, tm, lg, fr, cs) == [res |-> res, tm |-> tm, lg |-> lg, frames |-> fr, calls |-> cs]

\* the orders in which a HashSet of pages can be iterated
Orders(S) ==
    {ord \in [1..Cardinality(S) -> S] : \A i, j \in 1..Cardinality(S) : ord[i] = ord[j] => i = j}

\* a faulty release that drops every lock of the table, whoever holds it
ReleaseAll(locks, S) == EmptyMap

\* the page-lock table without the locks on the pages in S
Release(locks, S) == [q \in (DOMAIN locks) \ S |-> locks[q]]

\* TransactionManager::start_txn
start_txn(tm, lg) ==
    LET txn_id == tm.next_txn_id
    IN [res |-> Ok,
        txn_id |-> txn_id,
        tm |-> [tm EXCEPT !.next_txn_id = @ + 1,
                          !.active_transactions = With(@, txn_id, NewTransaction)],
        lg |-> log_txn_begin(lg, txn_id)]

RECURSIVE FlushEach(_, _, _)
\* the loop of commit_txn over the modified pages (flush_page never fails)
FlushEach(ord, i, fr) ==
    IF i > Len(ord) THEN fr ELSE FlushEach(ord, i + 1, flush_page(fr, ord[i]))

\* a faulty commit_txn that appends the Commit record before it flushes the
\* modified pages
commit_txn_log_first(tm, lg, fr, txn_id) ==
    IF txn_id \notin DOMAIN tm.active_transactions
    THEN {TmOut(TxnNotFound(txn_id), tm, lg, fr, <<>>)}
    ELSE LET txn == tm.active_transactions[txn_id]
             tm1 == [tm EXCEPT !.active_transactions = Without(@, txn_id)]
             tm2 == [tm1 EXCEPT !.page_locks = Release(@, txn.locked_pages)]
         IN {TmOut(Ok, tm2, log_commit(lg, txn_id), FlushEach(ord, 1, fr),
                   <<Call("log_commit", txn_id)>>
                     \o [i \in 1..Len(ord) |-> Call("flush_page", ord[i])])
             : ord \in Orders(txn.modified_pages)}

\* TransactionManager::commit_txn
commit_txn(tm, lg, fr, txn_id) ==
    IF txn_id \notin DOMAIN tm.active_transactions
    THEN {TmOut(TxnNotFound(txn_id), tm, lg, fr, <<>>)}
    ELSE LET txn == tm.active_transactions[txn_id]
             tm1 == [tm EXCEPT !.active_transactions = Without(@, txn_id)]
             tm2 == [tm1 EXCEPT !.page_locks = Release(@, txn.locked_pages)]
         IN {TmOut(Ok, tm2, log_commit(lg, txn_id), FlushEach(ord, 1, fr),
                   [i \in 1..Len(ord) |-> Call("flush_page", ord[i])]
                     \o <<Call("log_commit", txn_id)>>)
             : ord \in Orders(txn.modified_pages)}

RECURSIVE DiscardEach(_, _, _, _)
\* the loop of abort_txn over the modified pages: stops at the first error
DiscardEach(ord, i, fr, cs) ==
    IF i > Len(ord) THEN [res |-> Ok, frames |-> fr, calls |-> cs]
    ELSE LET d == discard_page(fr, ord[i])
             c == Append(cs, Call("discard_page", ord[i]))
         IN IF d.res # Ok THEN [res |-> d.res, frames |-> d.frames, calls |-> c]
            ELSE DiscardEach(ord, i + 1, d.frames, c)

\* a faulty abort_txn that appends an Abort record for a transaction that is
\* not in the active table
abort_txn_log_missing(tm, lg, fr, cap, txn_id) ==
    IF txn_id \notin DOMAIN tm.active_transactions
    THEN {TmOut(TxnNotFound(txn_id), tm,
                [write_to_log(lg, <<AbortRecord>> \o to_le_bytes(txn_id, U64Size))
                   EXCEPT !.record_counts[AbortRecord] = @ + 1],
                fr, <<>>)}
    ELSE LET txn == tm.active_transactions[txn_id]
             tm1 == [tm EXCEPT !.active_transactions = Without(@, txn_id)]
             tm2 == [tm1 EXCEPT !.page_locks = Release(@, txn.locked_pages)]
         IN UNION {LET d == DiscardEach(ord, 1, fr, <<>>)
                   IN IF d.res # Ok THEN {TmOut(d.res, tm1, lg, d.frames, d.calls)}
                      ELSE {TmOut(a.res, tm2, a.lg, a.frames,
                                  Append(d.calls, Call("log_abort", txn_id)))
                            : a \in log_abort(lg, txn_id, d.frames, cap)}
                   : ord \in Orders(txn.modified_pages)}

\* TransactionManager::abort_txn
abort_txn(tm, lg, fr, cap, txn_id) ==
    IF txn_id \notin DOMAIN tm.active_transactions
    THEN {TmOut(TxnNotFound(txn_id), tm, lg, fr, <<>>)}
    ELSE LET txn == tm.active_transactions[txn_id]
             tm1 == [tm EXCEPT !.active_transactions = Without(@, txn_id)]
             tm2 == [tm1 EXCEPT !.page_locks = Release(@, txn.locked_pages)]
         IN UNION {LET d == DiscardEach(ord, 1, fr, <<>>)
                   IN IF d.res # Ok THEN {TmOut(d.res, tm1, lg, d.frames, d.calls)}
                      ELSE {TmOut(a.res, tm2, a.lg, a.frames,
                                  Append(d.calls, Call("log_abort", txn_id)))
                            : a \in log_abort(lg, txn_id, d.frames, cap)}
                   : ord \in Orders(txn.modified_pages)}

\* a faulty add_modified_page that takes the lock without looking at its
\* holder
add_modified_page_steal(tm, txn_id, page_id) ==
    IF txn_id \in DOMAIN tm.active_transactions
    THEN [res |-> Ok,
          tm |-> [tm EXCEPT !.page_locks = With(@, page_id, txn_id),
                            !.active_transactions[txn_id].locked_pages = @ \cup {page_id},
                            !.active_transactions[txn_id].modified_pages = @ \cup {page_id}]]
    ELSE [res |-> TxnNotFound(txn_id), tm |-> tm]

\* TransactionManager::add_modified_page
add_modified_page(tm, txn_id, page_id) ==
    IF page_id \in DOMAIN tm.page_locks /\ tm.page_locks[page_id] # txn_id
    THEN [res |-> PageLocked(page_id, tm.page_locks[page_id]), tm |-> tm]
    ELSE IF txn_id \in DOMAIN tm.active_transactions
    THEN [res |-> Ok,
          tm |-> [tm EXCEPT !.page_locks = With(@, page_id, txn_id),
                            !.active_transactions[txn_id].locked_pages = @ \cup {page_id},
                            !.active_transactions[txn_id].modified_pages = @ \cup {page_id}]]
    ELSE [res |-> TxnNotFound(txn_id), tm |-> tm]

\* TransactionManager::is_page_locked
is_page_locked(tm, page_id) == page_id \in DOMAIN tm.page_locks

---------------------------------------------------------------------------
(* SlottedPage (src/src/storage/slotted_page.rs).  A page is               *)
(* [page_id, slots]; a slot is <<>> (None) or <<record id>> (Some); slot   *)
(* indexes are counted from 0 as in the code, slots[k + 1] being slot k.   *)

\* Option::None in a slot
NoRecord == <<>>

\* SlottedPage::new
NewSlottedPage(page_id, num_slots) ==
    [page_id |-> page_id, slots |-> [i \in 1..num_slots |-> NoRecord]]

\* a faulty allocate_slot that takes the last empty slot
allocate_slot_from_back(page, record_id) ==
    LET empty == {i \in 1..Len(page.slots) : page.slots[i] = NoRecord}
    IN IF empty = {} THEN [page |-> page, index |-> <<>>]
       ELSE LET i == CHOOSE k \in empty : \A j \in empty : k >= j
            IN [page |-> [page EXCEPT !.slots[i] = <<record_id>>], index |-> <<i - 1>>]

\* SlottedPage::allocate_slot: the first empty slot takes the record id;
\* index is <<>> when the page is full
allocate_slot(page, record_id) ==
    LET empty == {i \in 1..Len(page.slots) : page.slots[i] = NoRecord}
    IN IF empty = {} THEN [page |-> page, index |-> <<>>]
       ELSE LET i == CHOOSE k \in empty : \A j \in empty : k <= j
            IN [page |-> [page EXCEPT !.slots[i] = <<record_id>>], index |-> <<i - 1>>]

\* SlottedPage::deallocate_slot
deallocate_slot(page, slot_index) ==
    IF slot_index >= Len(page.slots)
    THEN [res |-> InvalidSlotIndex(slot_index), page |-> page]
    ELSE [res |-> Ok, page |-> [page EXCEPT !.slots[slot_index + 1] = NoRecord]]

\* SlottedPage::get_record_id
get_record_id(page, slot_index) ==
    IF slot_index >= Len(page.slots)
    THEN [res |-> InvalidSlotIndex(slot_index), val |-> <<>>]
    ELSE IF page.slots[slot_index + 1] = NoRecord
    THEN [res |-> EmptySlot(slot_index), val |-> <<>>]
    ELSE [res |-> Ok, val |-> page.slots[slot_index + 1]]

RECURSIVE SerializeSlots(_)
\* bincode of the elements of Vec<Option<RecordID>>: tag 0, or tag 1 and the
\* id as 8 little-endian bytes
SerializeSlots(slots) ==
    IF slots = <<>> THEN <<>>
    ELSE (IF Head(slots) = NoRecord THEN <<0>>
          ELSE <<1>> \o to_le_bytes(Head(slots)[1], U64Size))
         \o SerializeSlots(Tail(slots))

\* a faulty serialize that leaves out the slot count
serialize_without_count(page) ==
    to_le_bytes(page.page_id, U64Size) \o SerializeSlots(page.slots)

\* SlottedPage::serialize (bincode): page_id, the slot count, the slots
serialize(page) ==
    to_le_bytes(page.page_id, U64Size) \o to_le_bytes(Len(page.slots), U64Size)
        \o SerializeSlots(page.slots)

RECURSIVE DeserializeSlots(_, _)
\* n slots read from the head of data: [ok, slots]; the input ending early or
\* a tag other than 0 and 1 is an error
DeserializeSlots(data, n) ==
    IF n = 0 THEN [ok |-> TRUE, slots |-> <<>>]
    ELSE IF data = <<>> THEN [ok |-> FALSE, slots |-> <<>>]
    ELSE IF Head(data) = 0
    THEN LET r == DeserializeSlots(Tail(data), n - 1)
         IN [ok |-> r.ok, slots |-> <<NoRecord>> \o r.slots]
    ELSE IF Head(data) = 1 /\ Len(data) >= TagSize + U64Size
    THEN LET r == DeserializeSlots(SubSeq(data, TagSize + U64Size + 1, Len(data)), n - 1)
         IN [ok |-> r.ok,
             slots |-> <<<<from_le_bytes(SubSeq(data, TagSize + 1, TagSize + U64Size))>>>>
                          \o r.slots]
    ELSE [ok |-> FALSE, slots |-> <<>>]

\* SlottedPage::deserialize (bincode; bytes after the last slot are ignored)
deserialize(data) ==
    IF Len(data) < 2 * U64Size
    THEN [res |-> DeserializationError, page |-> NewSlottedPage(0, 0)]
    ELSE LET r == DeserializeSlots(SubSeq(data, 2 * U64Size + 1, Len(data)),
                                   from_le_bytes(SubSeq(data, U64Size + 1, 2 * U64Size)))
         IN IF r.ok
            THEN [res |-> Ok,
                  page |-> [page_id |-> from_le_bytes(SubSeq(data, 1, U64Size)),
                            slots |-> r.slots]]
            ELSE [res |-> DeserializationError, page |-> NewSlottedPage(0, 0)]

---------------------------------------------------------------------------
(* HeapSegment (src/src/heap/heap_segment.rs).  A segment value is         *)
(* [file, page_size, num_slots_per_page, pages, page_access_order,         *)
(* max_pages_in_memory, next_page_id, dirty_pages], file being the bytes   *)
(* of the backing file.  An outcome is [res, heap, val]; operations that   *)
(* iterate over the HashMap or the HashSet and can stop at an error return *)
(* the set of outcomes the iteration orders can produce.                   *)

\* HeapSegment::new over a file that holds the given bytes
NewHeapSegment(file, page_size, num_slots_per_page, max_pages_in_memory) ==
    [file |-> file,
     page_size |-> page_size,
     num_slots_per_page |-> num_slots_per_page,
     pages |-> EmptyMap,
     page_access_order |-> <<>>,
     max_pages_in_memory |-> max_pages_in_memory,
     next_page_id |-> 0,
     dirty_pages |-> {}]

\* PageInfo; last_accessed is written and never read
PageInfo(page, is_dirty, modifying_txn) ==
    [page |-> page, is_dirty |-> is_dirty, modifying_txn |-> modifying_txn]

HOut(res, h, val) == [res |-> res, heap |-> h, val |-> val]

\* file.seek(SeekFrom::Start(offset)); file.write_all(data): a write past the
\* end extends the file, the gap reading as zeros
WriteAt(file, offset, data) ==
    LET before == IF offset <= Len(file) THEN SubSeq(file, 1, offset)
                  ELSE file \o Zeros(offset - Len(file))
    IN before \o data \o SubSeq(file, offset + Len(data) + 1, Len(file))

\* file.seek(SeekFrom::Start(offset)); file.read(buffer) with n = buffer.len():
\* the bytes the file holds from offset on, n at most
ReadAt(file, offset, n) ==
    SubSeq(file, offset + 1, IF offset + n < Len(file) THEN offset + n ELSE Len(file))

\* HeapSegment::read_page_from_disk
read_page_from_disk(h, page_id) ==
    LET buffer == ReadAt(h.file, page_id * h.page_size, h.page_size)
    IN IF Len(buffer) = 0
       THEN [res |-> PageNotFound(page_id), page |-> NewSlottedPage(0, 0)]
       ELSE deserialize(buffer)

\* the tests of evict_page's loop: the page is neither in the dirty set nor
\* cached with an owner
Evictable(h, page_id) ==
    /\ page_id \notin h.dirty_pages
    /\ ~(page_id \in DOMAIN h.pages /\ h.pages[page_id].modifying_txn # <<>>)

\* HeapSegment::evict_page: the queue is cycled, entries that cannot be
\* evicted going to the back, until one can; BufferFull needs an empty queue,
\* and with a queue of entries that all stay unevictable the loop never ends
heap_evict_page(h) ==
    LET q == h.page_access_order
        cand == {i \in 1..Len(q) : Evictable(h, q[i])}
    IN IF q = <<>> THEN HOut(BufferFull, h, <<>>)
       ELSE IF cand = {} THEN HOut(Diverges, h, <<>>)
       ELSE LET i == CHOOSE k \in cand : \A j \in cand : k <= j
            IN HOut(Ok, [h EXCEPT !.page_access_order =
                                      SubSeq(q, i + 1, Len(q)) \o SubSeq(q, 1, i - 1),
                                  !.pages = Without(@, q[i])], <<>>)

\* HeapSegment::ensure_page_loaded
ensure_page_loaded(h, page_id) ==
    IF page_id \in DOMAIN h.pages THEN HOut(Ok, h, <<>>)
    ELSE LET e == IF Cardinality(DOMAIN h.pages) >= h.max_pages_in_memory
                  THEN heap_evict_page(h) ELSE HOut(Ok, h, <<>>)
         IN IF e.res # Ok THEN e
            ELSE LET r == read_page_from_disk(e.heap, page_id)
                 IN IF r.res # Ok THEN HOut(r.res, e.heap, <<>>)
                    ELSE HOut(Ok, [e.heap EXCEPT
                                     !.pages = With(@, page_id, PageInfo(r.page, FALSE, <<>>)),
                                     !.page_access_order = Append(@, page_id)], <<>>)

\* HeapSegment::update_page_access: the first queue entry of the page moves
\* to the back
update_page_access(h, page_id) ==
    LET q == h.page_access_order
        pos == {i \in 1..Len(q) : q[i] = page_id}
    IN IF pos = {} THEN h
       ELSE LET i == CHOOSE k \in pos : \A j \in pos : k <= j
            IN [h EXCEPT !.page_access_order =
                   SubSeq(q, 1, i - 1) \o SubSeq(q, i + 1, Len(q)) \o <<page_id>>]

\* HeapSegment::mark_page_dirty
mark_page_dirty(h, page_id, txn_id) ==
    IF page_id \in DOMAIN h.pages
    THEN [h EXCEPT !.pages[page_id].is_dirty = TRUE,
                   !.pages[page_id].modifying_txn = <<txn_id>>,
                   !.dirty_pages = @ \cup {page_id}]
    ELSE h

\* HeapSegment::cache_page
cache_page(h, page_id, page, txn_id) ==
    LET e == IF Cardinality(DOMAIN h.pages) >= h.max_pages_in_memory
             THEN heap_evict_page(h) ELSE HOut(Ok, h, <<>>)
    IN IF e.res # Ok THEN e
       ELSE HOut(Ok, [e.heap EXCEPT
                        !.pages = With(@, page_id, PageInfo(page, TRUE, <<txn_id>>)),
                        !.page_access_order = Append(@, page_id),
                        !.dirty_pages = @ \cup {page_id}], <<>>)

\* a faulty allocate_page that caches the new page without writing it
allocate_page_unwritten(h, txn_id) ==
    LET c == cache_page([h EXCEPT !.next_page_id = @ + 1], h.next_page_id,
                        NewSlottedPage(h.next_page_id, h.num_slots_per_page), txn_id)
    IN IF c.res # Ok THEN c ELSE HOut(Ok, c.heap, <<h.next_page_id>>)

\* HeapSegment::allocate_page
allocate_page(h, txn_id) ==
    LET page_id == h.next_page_id
        h1 == [h EXCEPT !.next_page_id = @ + 1]
        new_page == NewSlottedPage(page_id, h.num_slots_per_page)
        serialized == serialize(new_page)
    IN IF Len(serialized) > h.page_size
       THEN HOut(PageSizeExceeded(Len(serialized), h.page_size), h1, <<>>)
       ELSE LET h2 == [h1 EXCEPT !.file = WriteAt(@, page_id * h.page_size, serialized)]
                c == cache_page(h2, page_id, new_page, txn_id)
            IN IF c.res # Ok THEN c ELSE HOut(Ok, c.heap, <<page_id>>)

\* HeapSegment::get_page: val is the page returned
get_page(h, page_id) ==
    LET l == ensure_page_loaded(h, page_id)
    IN IF l.res # Ok THEN l
       ELSE LET h1 == update_page_access(l.heap, page_id)
            IN HOut(Ok, h1, <<h1.pages[page_id].page>>)

\* a faulty get_page_mut without the check for a conflicting transaction
get_page_mut_unchecked(h, page_id, txn_id) ==
    LET l == ensure_page_loaded(h, page_id)
    IN IF l.res # Ok THEN l
       ELSE HOut(Ok, mark_page_dirty(update_page_access(l.heap, page_id), page_id, txn_id),
                 <<>>)

\* HeapSegment::get_page_mut
get_page_mut(h, page_id, txn_id) ==
    LET l == ensure_page_loaded(h, page_id)
    IN IF l.res # Ok THEN l
       ELSE LET owner == l.heap.pages[page_id].modifying_txn
            IN IF owner # <<>> /\ owner[1] # txn_id
               THEN HOut(BeingModified(page_id, owner[1]), l.heap, <<>>)
               ELSE HOut(Ok, mark_page_dirty(update_page_access(l.heap, page_id),
                                             page_id, txn_id), <<>>)

\* HeapSegment::insert_record: val is the slot index
insert_record(h, page_id, record_id, txn_id) ==
    LET g == get_page_mut(h, page_id, txn_id)
    IN IF g.res # Ok THEN g
       ELSE LET a == allocate_slot(g.heap.pages[page_id].page, record_id)
            IN IF a.index = <<>> THEN HOut(PageFull(page_id), g.heap, <<>>)
               ELSE HOut(Ok, [g.heap EXCEPT !.pages[page_id].page = a.page], a.index)

\* HeapSegment::delete_record
delete_record(h, page_id, slot_index, txn_id) ==
    LET g == get_page_mut(h, page_id, txn_id)
    IN IF g.res # Ok THEN g
       ELSE LET d == deallocate_slot(g.heap.pages[page_id].page, slot_index)
            IN HOut(d.res, [g.heap EXCEPT !.pages[page_id].page = d.page], <<>>)

\* HeapSegment::get_record: val is the record id
get_record(h, page_id, slot_index) ==
    LET g == get_page(h, page_id)
    IN IF g.res # Ok THEN g
       ELSE LET r == get_record_id(g.val[1], slot_index)
            IN HOut(r.res, g.heap, r.val)

\* the cached pages a transaction owns
OwnedBy(h, txn_id) ==
    {p \in DOMAIN h.pages : h.pages[p].modifying_txn = <<txn_id>>}

RECURSIVE CommitPages(_, _)
\* the write loop of commit_transaction over the pages still to write, in
\* any order: a page that does not fit ends it with the pages before written
CommitPages(h, todo) ==
    IF todo = {} THEN {HOut(Ok, h, <<>>)}
    ELSE UNION {LET serialized == serialize(h.pages[p].page)
                IN IF Len(serialized) > h.page_size
                   THEN {HOut(PageSizeExceeded(Len(serialized), h.page_size), h, <<>>)}
                   ELSE CommitPages(
                            [h EXCEPT !.file = WriteAt(@, p * h.page_size, serialized),
                                      !.pages[p].modifying_txn = <<>>,
                                      !.pages[p].is_dirty = FALSE,
                                      !.dirty_pages = @ \ {p}],
                            todo \ {p})
                : p \in todo}

\* a faulty commit_transaction that releases the pages without writing them
commit_transaction_unwritten(h, txn_id) ==
    {HOut(Ok, [h EXCEPT !.pages = [p \in DOMAIN @ |->
                                     IF p \in OwnedBy(h, txn_id)
                                     THEN [@[p] EXCEPT !.modifying_txn = <<>>,
                                                       !.is_dirty = FALSE]
                                     ELSE @[p]],
                        !.dirty_pages = @ \ OwnedBy(h, txn_id)], <<>>)}

\* HeapSegment::commit_transaction
commit_transaction(h, txn_id) == CommitPages(h, OwnedBy(h, txn_id))

RECURSIVE AbortPages(_, _)
\* the reload loop of abort_transaction over the pages still to reload, in
\* any order
AbortPages(h, todo) ==
    IF todo = {} THEN {HOut(Ok, h, <<>>)}
    ELSE UNION {LET l == ensure_page_loaded([h EXCEPT !.pages = Without(@, p)], p)
                IN IF l.res # Ok THEN {l} ELSE AbortPages(l.heap, todo \ {p})
                : p \in todo}

\* HeapSegment::abort_transaction
abort_transaction(h, txn_id) == AbortPages(h, OwnedBy(h, txn_id))

RECURSIVE FlushPages(_, _)
\* the write loop of flush over the pages still to write, in any order; the
\* owner of a page is left as it is
FlushPages(h, todo) ==
    IF todo = {} THEN {HOut(Ok, [h EXCEPT !.dirty_pages = {}], <<>>)}
    ELSE UNION {LET serialized == serialize(h.pages[p].page)
                IN IF Len(serialized) > h.page_size
                   THEN {HOut(PageSizeExceeded(Len(serialized), h.page_size), h, <<>>)}
                   ELSE FlushPages(
                            [h EXCEPT !.file = WriteAt(@, p * h.page_size, serialized),
                                      !.pages[p].is_dirty = FALSE],
                            todo \ {p})
                : p \in todo}

\* HeapSegment::flush
flush(h) == FlushPages(h, h.dirty_pages \cap DOMAIN h.pages)

---------------------------------------------------------------------------
(* File (src/src/storage/file.rs).  A PosixFile is [mode, file,            *)
(* cached_size], file being the bytes of the file the handle is open on;   *)
(* a MemoryFile is [mode, data].  An outcome is [res, file, val], val      *)
(* being the block read.                                                   *)

\* FileMode
READ == "READ"
WRITE == "WRITE"

ReadOnlyResize == Other("Cannot resize a read-only file")
ReadOnlyWrite == Other("Cannot write to a read-only file")
PastEnd(offset, size, filesize) ==
    Other("Attempt to read past end of file: offset=" \o ToString(offset)
          \o ", size=" \o ToString(size) \o ", filesize=" \o ToString(filesize))

FOut(res, f, val) == [res |-> res, file |-> f, val |-> val]

\* std::fs::File::set_len: the file is truncated, or extended with zeros
SetLen(bytes, new_size) ==
    IF new_size <= Len(bytes) THEN SubSeq(bytes, 1, new_size)
    ELSE bytes \o Zeros(new_size - Len(bytes))

\* Vec::resize(new_size, 0)
VecResize(data, new_size) ==
    IF new_size <= Len(data) THEN SubSeq(data, 1, new_size)
    ELSE data \o Zeros(new_size - Len(data))

\* PosixFile::new on a path that holds the given bytes
NewPosixFile(bytes, mode) ==
    [mode |-> mode, file |-> bytes, cached_size |-> Len(bytes)]

\* PosixFile::size
posix_size(f) == f.cached_size

\* PosixFile::resize: a new size equal to the cached one returns Ok before
\* the mode is looked at
posix_resize(f, new_size) ==
    IF new_size = f.cached_size THEN FOut(Ok, f, <<>>)
    ELSE IF f.mode = READ THEN FOut(ReadOnlyResize, f, <<>>)
    ELSE FOut(Ok, [f EXCEPT !.file = SetLen(@, new_size), !.cached_size = new_size], <<>>)

\* PosixFile::read_block
posix_read_block(f, offset, size) ==
    IF offset + size > f.cached_size
    THEN FOut(PastEnd(offset, size, f.cached_size), f, <<>>)
    ELSE IF offset + size > Len(f.file) THEN FOut(IOError, f, <<>>)
    ELSE FOut(Ok, f, SubSeq(f.file, offset + 1, offset + size))

\* a faulty PosixFile::write_block that sets the length of the file to the
\* end of the block whenever it writes
posix_write_block_truncating(f, block, offset) ==
    IF f.mode = READ THEN FOut(ReadOnlyWrite, f, <<>>)
    ELSE LET r == posix_resize(f, offset + Len(block))
         IN IF r.res # Ok THEN r
            ELSE FOut(Ok, [r.file EXCEPT !.file = WriteAt(@, offset, block)], <<>>)

\* PosixFile::write_block
posix_write_block(f, block, offset) ==
    IF f.mode = READ THEN FOut(ReadOnlyWrite, f, <<>>)
    ELSE LET r == IF offset + Len(block) > f.cached_size
                  THEN posix_resize(f, offset + Len(block)) ELSE FOut(Ok, f, <<>>)
         IN IF r.res # Ok THEN r
            ELSE FOut(Ok, [r.file EXCEPT !.file = WriteAt(@, offset, block)], <<>>)

\* MemoryFile::with_data
NewMemoryFile(data, mode) == [mode |-> mode, data |-> data]

\* MemoryFile::size
memory_size(f) == Len(f.data)

\* MemoryFile::resize
memory_resize(f, new_size) ==
    IF f.mode = READ THEN FOut(ReadOnlyResize, f, <<>>)
    ELSE FOut(Ok, [f EXCEPT !.data = VecResize(@, new_size)], <<>>)

\* MemoryFile::read_block
memory_read_block(f, offset, size) ==
    IF offset + size > Len(f.data)
    THEN FOut(PastEnd(offset, size, Len(f.data)), f, <<>>)
    ELSE FOut(Ok, f, SubSeq(f.data, offset + 1, offset + size))

\* MemoryFile::write_block
memory_write_block(f, block, offset) ==
    IF f.mode = READ THEN FOut(ReadOnlyWrite, f, <<>>)
    ELSE LET r == IF offset + Len(block) > Len(f.data)
                  THEN memory_resize(f, offset + Len(block)) ELSE FOut(Ok, f, <<>>)
         IN IF r.res # Ok THEN r
            ELSE FOut(Ok, [r.file EXCEPT !.data =
                              CopyFromSlice(@, offset, Len(block), block)], <<>>)

\* the two variants, opened in the same mode on the same bytes
NewFiles(bytes, mode) ==
    [posix |-> NewPosixFile(bytes, mode), memory |-> NewMemoryFile(bytes, mode)]

---------------------------------------------------------------------------
(* Page ids of the buffer manager (src/src/buffer/buffer_manager.rs).  A   *)
(* u64 is its four 16-bit limbs, the least significant first, so that the  *)
(* shifts, the or and the mask keep the width the code has; a u16 is one   *)
(* limb.                                                                   *)

\* the bits of a u16, and the u16 limbs of a u64
LimbBits == 16
U64Limbs == 4
\* the place of the segment id in an overall page id
SegmentShift == 48

LimbMax == 2^LimbBits - 1

RECURSIVE BitOr(_, _)
BitOr(a, b) ==
    IF a = 0 THEN b
    ELSE IF b = 0 THEN a
    ELSE (IF a % 2 = 1 \/ b % 2 = 1 THEN 1 ELSE 0) + 2 * BitOr(a \div 2, b \div 2)

RECURSIVE BitAnd(_, _)
BitAnd(a, b) ==
    IF a = 0 \/ b = 0 THEN 0
    ELSE (IF a % 2 = 1 /\ b % 2 = 1 THEN 1 ELSE 0) + 2 * BitAnd(a \div 2, b \div 2)

\* segment_id as u64
AsU64(x) == [i \in 1..U64Limbs |-> IF i = 1 THEN x ELSE 0]
\* x as u16: the low 16 bits
AsU16(x) == x[1]
\* x << bits and x >> bits on a u64, bits a multiple of 16 below 64: the
\* bits shifted out are lost
U64Shl(x, bits) ==
    LET k == bits \div LimbBits
    IN [i \in 1..U64Limbs |-> IF i > k THEN x[i - k] ELSE 0]
U64Shr(x, bits) ==
    LET k == bits \div LimbBits
    IN [i \in 1..U64Limbs |-> IF i + k <= U64Limbs THEN x[i + k] ELSE 0]
\* x | y and x & y on a u64
U64Or(x, y) == [i \in 1..U64Limbs |-> BitOr(x[i], y[i])]
U64And(x, y) == [i \in 1..U64Limbs |-> BitAnd(x[i], y[i])]

\* 0x0000FFFFFFFFFFFF
PageIdMask ==
    [i \in 1..U64Limbs |-> IF i <= SegmentShift \div LimbBits THEN LimbMax ELSE 0]

\* BufferManager::get_overall_page_id
get_overall_page_id(segment_id, page_id) ==
    U64Or(U64Shl(AsU64(segment_id), SegmentShift), page_id)

\* BufferManager::get_segment_id
get_segment_id(overall_page_id) == AsU16(U64Shr(overall_page_id, SegmentShift))

\* BufferManager::get_segment_page_id
get_segment_page_id(overall_page_id) == U64And(overall_page_id, PageIdMask)

---------------------------------------------------------------------------
(* The state machine.  The transaction manager, the log manager and the    *)
(* buffer pool are one shared instance each (src/src/lib.rs, Database::new)*)

LM == [log_file |-> log_file,
       current_offset |-> current_offset,
       record_counts |-> record_counts,
       txn_id_to_first_log_record |-> txn_id_to_first_log_record]

TM == [next_txn_id |-> next_txn_id,
       active_transactions |-> active_transactions,
       page_locks |-> page_locks]

SetLog(lg) ==
    /\ log_file' = lg.log_file
    /\ current_offset' = lg.current_offset
    /\ record_counts' = lg.record_counts
    /\ txn_id_to_first_log_record' = lg.txn_id_to_first_log_record

SetTM(tm) ==
    /\ next_txn_id' = tm.next_txn_id
    /\ active_transactions' = tm.active_transactions
    /\ page_locks' = tm.page_locks

\* Option values
None == <<>>
Some(v) == <<v>>

Last(op, txn, page, res, pre) ==
    [op |-> op, txn |-> txn, page |-> page, res |-> res, pre |-> pre]

\* the bytes a fix_page of the page yields: a page that is not resident is
\* brought in as a zeroed frame
PageBytes(fr, page_id) ==
    IF page_id \in DOMAIN fr THEN fr[page_id].data ELSE Zeros(PageSize)

\* the number of Update records appended so far
Updates == record_counts[UpdateRecord]

\* a session is live until the crash harness or recovery has run
Live == ~crashed /\ rec_runs = 0

\* the state after LogManager::new, BufferManager::new(PageSize, cap) and
\* TransactionManager::new
InitBase(caps) ==
    /\ log_file = <<>>
    /\ current_offset = 0
    /\ record_counts = [ty \in RecordTypes |-> 0]
    /\ txn_id_to_first_log_record = EmptyMap
    /\ frames = EmptyMap
    /\ capacity \in caps
    /\ next_txn_id = 0
    /\ active_transactions = EmptyMap
    /\ page_locks = EmptyMap
    /\ last = Last("new", None, None, Ok, EmptyMap)
    /\ calls = <<>>
    /\ pre_img = EmptyMap
    /\ crashed = FALSE
    /\ rec_runs = 0
    /\ rec_first = EmptyMap
    /\ written = EmptyMap
    /\ pool_owner = <<>>
    /\ frame_guards = EmptyMap
    /\ running = EmptyMap

\* a page without slots and two empty files, for the sessions that use
\* neither
InitStorage ==
    /\ slotted = NewSlottedPage(0, 0)
    /\ files = NewFiles(<<>>, WRITE)

\* the heap segment is opened over a new file
InitWith(caps) ==
    /\ InitBase(caps)
    /\ heap = NewHeapSegment(<<>>, HeapPageSize, NumSlots, MaxCached)
    /\ InitStorage

\* heap segments of every cache size up to MaxCached
InitHeap ==
    /\ InitBase({MaxCapacity})
    /\ heap \in {NewHeapSegment(<<>>, HeapPageSize, NumSlots, m) : m \in 0..MaxCached}
    /\ InitStorage

\* a pool that holds every page of the session
Init == InitWith({MaxCapacity})
\* pools of every capacity up to MaxCapacity
InitAnyCapacity == InitWith(1..MaxCapacity)

\* TransactionManager::start_txn
StartTxn ==
    /\ Live
    /\ next_txn_id < MaxTxn
    /\ LET o == start_txn(TM, LM)
       IN /\ SetTM(o.tm)
          /\ SetLog(o.lg)
          /\ last' = Last("start_txn", Some(o.txn_id), None, o.res, EmptyMap)
          /\ pre_img' = With(pre_img, o.txn_id, EmptyMap)
    /\ calls' = <<Call("log_txn_begin", next_txn_id)>>
    /\ UNCHANGED <<frames, capacity, heap, slotted, files, clientVars, crashed, rec_runs,
                   rec_first>>

\* TransactionManager::add_modified_page
AddModifiedPage(txn_id, page_id) ==
    /\ Live
    /\ LET o == add_modified_page(TM, txn_id, page_id)
       IN /\ SetTM(o.tm)
          /\ last' = Last("add_modified_page", Some(txn_id), Some(page_id), o.res, EmptyMap)
          /\ pre_img' = IF o.res = Ok /\ page_id \notin DOMAIN pre_img[txn_id]
                        THEN [pre_img EXCEPT ![txn_id] =
                                 With(@, page_id, PageBytes(frames, page_id))]
                        ELSE pre_img
    /\ calls' = <<>>
    /\ UNCHANGED <<logVars, frames, capacity, heap, slotted, files, clientVars, crashed,
                   rec_runs, rec_first>>

\* the pre-images of a transaction that commit_txn or abort_txn ends
EndedPre(txn_id) == IF txn_id \in DOMAIN pre_img THEN pre_img[txn_id] ELSE EmptyMap

\* TransactionManager::commit_txn
CommitTxn(txn_id) ==
    /\ Live
    /\ \E o \in commit_txn(TM, LM, frames, txn_id) :
          /\ SetTM(o.tm)
          /\ SetLog(o.lg)
          /\ frames' = o.frames
          /\ calls' = o.calls
          /\ last' = Last("commit_txn", Some(txn_id), None, o.res,
                          IF o.res = Ok THEN EndedPre(txn_id) ELSE EmptyMap)
          /\ pre_img' = IF txn_id \in DOMAIN active_transactions
                        THEN Without(pre_img, txn_id) ELSE pre_img
    /\ UNCHANGED <<capacity, heap, slotted, files, clientVars, crashed, rec_runs, rec_first>>

\* TransactionManager::abort_txn
AbortTxn(txn_id) ==
    /\ Live
    /\ \E o \in abort_txn(TM, LM, frames, capacity, txn_id) :
          /\ SetTM(o.tm)
          /\ SetLog(o.lg)
          /\ frames' = o.frames
          /\ calls' = o.calls
          /\ last' = Last("abort_txn", Some(txn_id), None, o.res,
                          IF txn_id \in DOMAIN active_transactions
                          THEN EndedPre(txn_id) ELSE EmptyMap)
          /\ pre_img' = IF txn_id \in DOMAIN active_transactions
                        THEN Without(pre_img, txn_id) ELSE pre_img
    /\ UNCHANGED <<capacity, heap, slotted, files, clientVars, crashed, rec_runs, rec_first>>

\* A client's update of a page its transaction has registered: fix the page
\* exclusive, log the Update with the bytes found as before-image, write the
\* after-image, unfix dirty
client_update(lg, fr, cap, txn_id, page_id, length, offset, after_img) ==
    {IF f.res # Ok THEN LogOut(f.res, lg, f.frames)
     ELSE LET before_img == SubSeq(f.frames[page_id].data, offset + 1, offset + length)
              u == unfix_page([f.frames EXCEPT ![page_id].data =
                                  CopyFromSlice(@, offset, length, after_img)],
                              page_id, TRUE)
          IN LogOut(u.res,
                    log_update(lg, txn_id, page_id, length, offset, before_img, after_img),
                    u.frames)
     : f \in fix_page(fr, cap, page_id, TRUE)}

\* the byte ranges [offset, offset+length) of a page
Ranges == {r \in (0..(PageSize - 1)) \X (1..PageSize) : r[1] + r[2] <= PageSize}

Update(txn_id, page_id, offset, length, v) ==
    /\ Live
    /\ Updates < MaxUpdates
    /\ txn_id \in DOMAIN active_transactions
    /\ page_id \in active_transactions[txn_id].modified_pages
    /\ \E o \in client_update(LM, frames, capacity, txn_id, page_id, length, offset,
                              Fill(length, v)) :
          /\ SetLog(o.lg)
          /\ frames' = o.frames
          /\ last' = Last("update", Some(txn_id), Some(page_id), o.res, EmptyMap)
    /\ calls' = <<>>
    /\ UNCHANGED <<tmVars, capacity, heap, slotted, files, clientVars, pre_img, crashed,
                   rec_runs, rec_first>>

\* BufferManager::fix_page called by a client that keeps the frame pinned
FixPage(page_id) ==
    /\ Live
    /\ page_id \in DOMAIN frames => frames[page_id].pin_count < MaxPin
    /\ \E o \in fix_page(frames, capacity, page_id, FALSE) :
          /\ frames' = o.frames
          /\ last' = Last("fix_page", None, Some(page_id), o.res, EmptyMap)
    /\ calls' = <<>>
    /\ UNCHANGED <<logVars, tmVars, capacity, heap, slotted, files, clientVars, pre_img,
                   crashed, rec_runs, rec_first>>

\* BufferManager::unfix_page called by a client on the frame of a resident page
UnfixPage(page_id) ==
    /\ Live
    /\ page_id \in DOMAIN frames
    /\ LET o == unfix_page(frames, page_id, FALSE)
       IN /\ frames' = o.frames
          /\ last' = Last("unfix_page", None, Some(page_id), o.res, EmptyMap)
    /\ calls' = <<>>
    /\ UNCHANGED <<logVars, tmVars, capacity, heap, slotted, files, clientVars, pre_img,
                   crashed, rec_runs, rec_first>>

\* The crash simulation of the recovery harness: discard_all_pages, then
\* reset of the log manager onto the reopened log file
SimulateCrash ==
    /\ Live
    /\ frames' = discard_all_pages(frames)
    /\ SetLog(reset(LM, log_file))
    /\ crashed' = TRUE
    /\ last' = Last("crash", None, None, Ok, EmptyMap)
    /\ calls' = <<>>
    /\ UNCHANGED <<tmVars, capacity, heap, slotted, files, clientVars, pre_img, rec_runs,
                   rec_first>>

\* LogManager::recovery, run at most twice in a row
Recovery ==
    /\ rec_runs < 2
    /\ \E o \in recovery(LM, frames, capacity) :
          /\ frames' = o.frames
          /\ last' = Last("recovery", None, None, o.res, EmptyMap)
          /\ rec_first' = IF rec_runs = 0 THEN o.frames ELSE rec_first
    /\ rec_runs' = rec_runs + 1
    /\ calls' = <<>>
    /\ UNCHANGED <<logVars, tmVars, capacity, heap, slotted, files, clientVars, pre_img, crashed>>

\* the transaction manager's session
Next ==
    \/ StartTxn
    \/ \E t \in TxnIds, p \in PageIds : AddModifiedPage(t, p)
    \/ \E t \in TxnIds : CommitTxn(t)
    \/ \E t \in TxnIds : AbortTxn(t)

Spec == Init /\ [][Next]_vars

---------------------------------------------------------------------------
(* The transaction manager's session with clients that keep frames of the  *)
(* shared buffer pool pinned.                                              *)

NextPin ==
    \/ StartTxn
    \/ \E t \in TxnIds, p \in PageIds : AddModifiedPage(t, p)
    \/ \E t \in TxnIds : CommitTxn(t)
    \/ \E t \in TxnIds : AbortTxn(t)
    \/ \E p \in PageIds : FixPage(p)
    \/ \E p \in PageIds : UnfixPage(p)

SpecPin == InitAnyCapacity /\ [][NextPin]_vars

---------------------------------------------------------------------------
(* A session of transactions that update the pages they registered, then   *)
(* the crash harness and recovery.                                         *)

NextCrash ==
    \/ StartTxn
    \/ \E t \in DOMAIN active_transactions, p \in PageIds : AddModifiedPage(t, p)
    \/ \E t \in TxnIds, p \in PageIds, r \in Ranges, v \in 1..MaxByte :
          Update(t, p, r[1], r[2], v)
    \/ \E t \in DOMAIN active_transactions : CommitTxn(t)
    \/ \E t \in DOMAIN active_transactions : AbortTxn(t)
    \/ SimulateCrash
    \/ Recovery

SpecCrash == Init /\ [][NextCrash]_vars

---------------------------------------------------------------------------
(* The log manager driven directly (as in tests/log_tests.rs,              *)
(* test_log_recovery), then recovery, run once or twice.                   *)

\* the transactions the log manager holds a first record for: begun and
\* neither committed nor aborted
Begun == DOMAIN txn_id_to_first_log_record

\* the records appended so far
Records == get_total_log_records(LM)

\* one page more than the largest pool holds
RecPages == 1..(MaxCapacity + 1)

\* LogManager::log_txn_begin called by a client
LogTxnBegin(txn_id) ==
    /\ rec_runs = 0
    /\ Records < MaxLog
    /\ txn_id = record_counts[BeginRecord]
    /\ SetLog(log_txn_begin(LM, txn_id))
    /\ last' = Last("log_txn_begin", Some(txn_id), None, Ok, EmptyMap)
    /\ calls' = <<>>
    /\ UNCHANGED <<tmVars, frames, capacity, heap, slotted, files, clientVars, pre_img,
                   crashed, rec_runs, rec_first>>

\* LogManager::log_update called by a client, with the images it supplies
LogUpdate(txn_id, page_id, offset, length, b, a) ==
    /\ rec_runs = 0
    /\ Records < MaxLog
    /\ txn_id \in Begun
    /\ SetLog(log_update(LM, txn_id, page_id, length, offset, Fill(length, b), Fill(length, a)))
    /\ last' = Last("log_update", Some(txn_id), Some(page_id), Ok, EmptyMap)
    /\ calls' = <<>>
    /\ UNCHANGED <<tmVars, frames, capacity, heap, slotted, files, clientVars, pre_img,
                   crashed, rec_runs, rec_first>>

\* LogManager::log_commit called by a client
LogCommit(txn_id) ==
    /\ rec_runs = 0
    /\ Records < MaxLog
    /\ txn_id \in Begun
    /\ SetLog(log_commit(LM, txn_id))
    /\ last' = Last("log_commit", Some(txn_id), None, Ok, EmptyMap)
    /\ calls' = <<>>
    /\ UNCHANGED <<tmVars, frames, capacity, heap, slotted, files, clientVars, pre_img,
                   crashed, rec_runs, rec_first>>

\* LogManager::log_abort called by a client
LogAbort(txn_id) ==
    /\ rec_runs = 0
    /\ Records < MaxLog
    /\ txn_id \in Begun
    /\ \E o \in log_abort(LM, txn_id, frames, capacity) :
          /\ SetLog(o.lg)
          /\ frames' = o.frames
          /\ last' = Last("log_abort", Some(txn_id), None, o.res, EmptyMap)
    /\ calls' = <<>>
    /\ UNCHANGED <<tmVars, capacity, heap, slotted, files, clientVars, pre_img, crashed,
                   rec_runs, rec_first>>

NextRec ==
    \/ \E t \in TxnIds : LogTxnBegin(t)
    \/ \E t \in TxnIds, p \in RecPages, r \in Ranges, b \in 0..MaxByte, a \in 1..MaxByte :
          LogUpdate(t, p, r[1], r[2], b, a)
    \/ \E t \in TxnIds : LogCommit(t)
    \/ \E t \in TxnIds : LogAbort(t)
    \/ Recovery

SpecRec == InitAnyCapacity /\ [][NextRec]_vars

---------------------------------------------------------------------------
(* The buffer pool under its clients: every operation of BufferManager,    *)
(* called with either flag, and rollback and recovery driven by the log of *)
(* one transaction that updates the pages in turn.                         *)

\* BufferManager::flush_all_pages: flush_page for every resident page
flush_all_pages(fr) == fr

\* BufferManager::fix_page with either access mode
Fix(page_id, is_exclusive) ==
    /\ page_id \in DOMAIN frames => frames[page_id].pin_count < MaxPin
    /\ \E o \in fix_page(frames, capacity, page_id, is_exclusive) :
          /\ frames' = o.frames
          /\ last' = Last("fix_page", None, Some(page_id), o.res, EmptyMap)
    /\ calls' = <<>>
    /\ UNCHANGED <<logVars, tmVars, capacity, heap, slotted, files, clientVars, pre_img,
                   crashed, rec_runs, rec_first>>

\* BufferManager::unfix_page on the frame of a resident page, with either flag
Unfix(page_id, is_dirty) ==
    /\ page_id \in DOMAIN frames
    /\ LET o == unfix_page(frames, page_id, is_dirty)
       IN /\ frames' = o.frames
          /\ last' = Last("unfix_page", None, Some(page_id), o.res, EmptyMap)
    /\ calls' = <<>>
    /\ UNCHANGED <<logVars, tmVars, capacity, heap, slotted, files, clientVars, pre_img,
                   crashed, rec_runs, rec_first>>

\* BufferManager::flush_page
FlushPage(page_id) ==
    /\ frames' = flush_page(frames, page_id)
    /\ last' = Last("flush_page", None, Some(page_id), Ok, EmptyMap)
    /\ calls' = <<>>
    /\ UNCHANGED <<logVars, tmVars, capacity, heap, slotted, files, clientVars, pre_img,
                   crashed, rec_runs, rec_first>>

\* BufferManager::flush_all_pages
FlushAllPages ==
    /\ frames' = flush_all_pages(frames)
    /\ last' = Last("flush_all_pages", None, None, Ok, EmptyMap)
    /\ calls' = <<>>
    /\ UNCHANGED <<logVars, tmVars, capacity, heap, slotted, files, clientVars, pre_img,
                   crashed, rec_runs, rec_first>>

\* BufferManager::discard_page
DiscardPage(page_id) ==
    /\ LET o == discard_page(frames, page_id)
       IN /\ frames' = o.frames
          /\ last' = Last("discard_page", None, Some(page_id), o.res, EmptyMap)
    /\ calls' = <<>>
    /\ UNCHANGED <<logVars, tmVars, capacity, heap, slotted, files, clientVars, pre_img,
                   crashed, rec_runs, rec_first>>

\* BufferManager::discard_all_pages
DiscardAllPages ==
    /\ frames' = discard_all_pages(frames)
    /\ last' = Last("discard_all_pages", None, None, Ok, EmptyMap)
    /\ calls' = <<>>
    /\ UNCHANGED <<logVars, tmVars, capacity, heap, slotted, files, clientVars, pre_img,
                   crashed, rec_runs, rec_first>>

\* LogManager::recovery on the pool as its clients left it, any number of times
RecoverPool ==
    /\ \E o \in recovery(LM, frames, capacity) :
          /\ frames' = o.frames
          /\ last' = Last("recovery", None, None, o.res, EmptyMap)
    /\ calls' = <<>>
    /\ UNCHANGED <<logVars, tmVars, capacity, heap, slotted, files, clientVars, pre_img,
                   crashed, rec_runs, rec_first>>

NextBuf ==
    \/ \E p \in PageIds, x \in BOOLEAN : Fix(p, x)
    \/ \E p \in PageIds, d \in BOOLEAN : Unfix(p, d)
    \/ \E p \in PageIds : FlushPage(p)
    \/ FlushAllPages
    \/ \E p \in PageIds : DiscardPage(p)
    \/ DiscardAllPages
    \/ LogTxnBegin(0)
    \/ \E p \in PageIds : p = Updates + 1 /\ LogUpdate(0, p, 0, 1, 0, 1)
    \/ LogAbort(0)
    \/ RecoverPool

SpecBuf == InitAnyCapacity /\ [][NextBuf]_vars

---------------------------------------------------------------------------
(* The log manager under a client that appends records of every type and   *)
(* rebinds the manager once, with `reset`, to the reopened log file.       *)

\* records a client appends after the reset
MaxAfterReset == 1

\* LogManager::log_checkpoint called by a client
LogCheckpoint ==
    /\ rec_runs = 0
    /\ Records < MaxLog
    /\ SetLog(log_checkpoint(LM))
    /\ last' = Last("log_checkpoint", None, None, Ok, EmptyMap)
    /\ calls' = <<>>
    /\ UNCHANGED <<tmVars, frames, capacity, heap, slotted, files, clientVars, pre_img,
                   crashed, rec_runs, rec_first>>

\* LogManager::reset onto the reopened log file, which holds what was written
Reset ==
    /\ ~crashed
    /\ SetLog(reset(LM, log_file))
    /\ crashed' = TRUE
    /\ last' = Last("reset", None, None, Ok, EmptyMap)
    /\ calls' = <<>>
    /\ UNCHANGED <<tmVars, frames, capacity, heap, slotted, files, clientVars, pre_img,
                   rec_runs, rec_first>>

\* the client may append: any record before the reset, a few after it
MayAppend == crashed => Records < MaxAfterReset

NextLog ==
    \/ MayAppend /\ \E t \in TxnIds : LogTxnBegin(t)
    \/ MayAppend /\ \E t \in TxnIds, n \in 1..PageSize : LogUpdate(t, 1, 0, n, 0, 1)
    \/ MayAppend /\ \E t \in TxnIds : LogCommit(t)
    \/ MayAppend /\ \E t \in TxnIds : LogAbort(t)
    \/ MayAppend /\ LogCheckpoint
    \/ Reset

SpecLog == Init /\ [][NextLog]_vars

---------------------------------------------------------------------------
(* The heap segment under clients that allocate, read and modify pages on  *)
(* behalf of transactions, commit or abort them, and flush.  A call of     *)
(* evict_page that never returns leaves the segment to no further call.    *)

HeapPageIds == 0..(MaxHeapPages - 1)
RecordIds == 1..MaxRecord
SlotIndexes == 0..NumSlots

\* no call on the segment is still running
Returned == last.res # Diverges

\* the pages a transaction has modified since it last ended, each with the
\* page as it was before the transaction's first modification
Modified(txn_id) == IF txn_id \in DOMAIN pre_img THEN pre_img[txn_id] ELSE EmptyMap

\* the page a modifying call of `op` found: the new page of allocate_page,
\* the page as cached or loaded for the others
Found(h, op, page_id) ==
    IF op = "allocate_page" THEN NewSlottedPage(page_id, h.num_slots_per_page)
    ELSE ensure_page_loaded(h, page_id).heap.pages[page_id].page

\* Modified(txn_id) after the call `op` of the transaction has taken the
\* segment from h to h2: a page the call made the transaction's is added, and
\* commit_transaction and abort_transaction leave the pages they did not reach
ModifiedAfter(h, h2, op, txn_id) ==
    LET old == Modified(txn_id)
        kept == IF op \in {"commit_transaction", "abort_transaction"}
                THEN DOMAIN old \cap OwnedBy(h2, txn_id) ELSE DOMAIN old
        new == OwnedBy(h2, txn_id) \ (OwnedBy(h, txn_id) \cup DOMAIN old)
    IN [p \in kept \cup new |-> IF p \in kept THEN old[p] ELSE Found(h, op, p)]

SetHeap(op, txn, page, o) ==
    /\ Len(o.heap.page_access_order) <= MaxQueue
    /\ heap' = o.heap
    /\ last' = Last(op, txn, page, o.res,
                    IF op \in {"commit_transaction", "abort_transaction"}
                    THEN Modified(txn[1]) ELSE EmptyMap)
    /\ pre_img' = IF txn = None THEN pre_img
                  ELSE LET m == ModifiedAfter(heap, o.heap, op, txn[1])
                       IN IF m = EmptyMap THEN Without(pre_img, txn[1])
                          ELSE With(pre_img, txn[1], m)
    /\ UNCHANGED <<logVars, tmVars, frames, capacity, calls, crashed,
                   rec_runs, rec_first, slotted, files, clientVars>>

\* HeapSegment::allocate_page
AllocatePage(txn_id) ==
    /\ Returned
    /\ heap.next_page_id < MaxHeapPages
    /\ SetHeap("allocate_page", Some(txn_id), None, allocate_page(heap, txn_id))

\* HeapSegment::get_page
GetPage(page_id) ==
    /\ Returned
    /\ SetHeap("get_page", None, Some(page_id), get_page(heap, page_id))

\* HeapSegment::get_page_mut
GetPageMut(page_id, txn_id) ==
    /\ Returned
    /\ SetHeap("get_page_mut", Some(txn_id), Some(page_id),
               get_page_mut(heap, page_id, txn_id))

\* HeapSegment::insert_record
InsertRecord(page_id, record_id, txn_id) ==
    /\ Returned
    /\ SetHeap("insert_record", Some(txn_id), Some(page_id),
               insert_record(heap, page_id, record_id, txn_id))

\* HeapSegment::delete_record
DeleteRecord(page_id, slot_index, txn_id) ==
    /\ Returned
    /\ SetHeap("delete_record", Some(txn_id), Some(page_id),
               delete_record(heap, page_id, slot_index, txn_id))

\* HeapSegment::commit_transaction
CommitTransaction(txn_id) ==
    /\ Returned
    /\ \E o \in commit_transaction(heap, txn_id) :
          SetHeap("commit_transaction", Some(txn_id), None, o)

\* HeapSegment::abort_transaction
AbortTransaction(txn_id) ==
    /\ Returned
    /\ \E o \in abort_transaction(heap, txn_id) :
          SetHeap("abort_transaction", Some(txn_id), None, o)

\* HeapSegment::flush
Flush ==
    /\ Returned
    /\ \E o \in flush(heap) : SetHeap("flush", None, None, o)

\* a segment opened anew, with the same parameters, over the file of h
Reopened(h) ==
    NewHeapSegment(h.file, h.page_size, h.num_slots_per_page, h.max_pages_in_memory)

\* the segment is dropped and HeapSegment::new is called on the same path
Reopen ==
    /\ Returned
    /\ heap' = Reopened(heap)
    /\ last' = Last("new", None, None, Ok, EmptyMap)
    /\ pre_img' = EmptyMap
    /\ UNCHANGED <<logVars, tmVars, frames, capacity, calls, crashed,
                   rec_runs, rec_first, slotted, files, clientVars>>

NextHeap ==
    \/ \E t \in TxnIds : AllocatePage(t)
    \/ \E p \in HeapPageIds : GetPage(p)
    \/ \E p \in HeapPageIds, t \in TxnIds : GetPageMut(p, t)
    \/ \E p \in HeapPageIds, r \in RecordIds, t \in TxnIds : InsertRecord(p, r, t)
    \/ \E p \in HeapPageIds, i \in SlotIndexes, t \in TxnIds : DeleteRecord(p, i, t)
    \/ \E t \in TxnIds : CommitTransaction(t)
    \/ \E t \in TxnIds : AbortTransaction(t)
    \/ Flush

SpecHeap == InitHeap /\ [][NextHeap]_vars

\* the heap segment under a client that allocates pages, fills and commits
\* them, and closes and reopens the segment over its file
NextReopen ==
    \/ \E t \in TxnIds : AllocatePage(t)
    \/ \E p \in HeapPageIds : GetPage(p)
    \/ \E p \in HeapPageIds, r \in RecordIds, t \in TxnIds : InsertRecord(p, r, t)
    \/ \E t \in TxnIds : CommitTransaction(t)
    \/ Reopen

SpecReopen == Init /\ [][NextReopen]_vars

---------------------------------------------------------------------------
(* A slotted page under a client that fills and frees its slots, reads     *)
(* them, and writes the page out and parses it back.                       *)

SlottedPageIds == {0, WideId}
SlottedRecordIds == {1, WideId}

InitPage ==
    /\ InitBase({MaxCapacity})
    /\ heap = NewHeapSegment(<<>>, HeapPageSize, NumSlots, MaxCached)
    /\ files = NewFiles(<<>>, WRITE)
    /\ slotted \in {NewSlottedPage(id, n) : id \in SlottedPageIds, n \in 0..MaxSlots}

\* the call on the page: its argument and the value it returned
SetPage(op, res, arg, val) ==
    /\ last' = Last(op, None, None, res, [arg |-> arg, val |-> val])
    /\ UNCHANGED <<logVars, tmVars, frames, capacity, calls, pre_img, crashed,
                   rec_runs, rec_first, heap, files, clientVars>>

\* SlottedPage::allocate_slot
AllocateSlot(record_id) ==
    LET a == allocate_slot(slotted, record_id)
    IN /\ slotted' = a.page
       /\ SetPage("allocate_slot", Ok, record_id, a.index)

\* SlottedPage::deallocate_slot
DeallocateSlot(slot_index) ==
    LET d == deallocate_slot(slotted, slot_index)
    IN /\ slotted' = d.page
       /\ SetPage("deallocate_slot", d.res, slot_index, <<>>)

\* SlottedPage::get_record_id
GetRecordId(slot_index) ==
    LET r == get_record_id(slotted, slot_index)
    IN /\ slotted' = slotted
       /\ SetPage("get_record_id", r.res, slot_index, r.val)

\* SlottedPage::serialize, then SlottedPage::deserialize of the bytes, the
\* page parsed taking the place of the page written
Deserialize ==
    LET data == serialize(slotted)
        r == deserialize(data)
    IN /\ slotted' = r.page
       /\ SetPage("deserialize", r.res, data, <<>>)

NextPage ==
    \/ \E r \in SlottedRecordIds : AllocateSlot(r)
    \/ \E i \in 0..MaxSlots : DeallocateSlot(i)
    \/ \E i \in 0..MaxSlots : GetRecordId(i)
    \/ Deserialize

SpecPage == InitPage /\ [][NextPage]_vars

---------------------------------------------------------------------------
(* A PosixFile and a MemoryFile opened in the same mode on the same bytes  *)
(* and driven by the same calls, each call made on the one and then on     *)
(* the other.                                                              *)

BlockBytes == {1, 2}
Blocks == UNION {[1..n -> BlockBytes] : n \in 0..MaxBlock}

InitFile ==
    /\ InitBase({MaxCapacity})
    /\ heap = NewHeapSegment(<<>>, HeapPageSize, NumSlots, MaxCached)
    /\ slotted = NewSlottedPage(0, 0)
    /\ files \in {NewFiles(bytes, mode) : bytes \in Blocks, mode \in {READ, WRITE}}

\* the call made on both files: its arguments, the sizes before it, and what
\* each variant returned
SetFiles(op, args, p, m) ==
    /\ files' = [posix |-> p.file, memory |-> m.file]
    /\ last' = Last(op, None, None, p.res,
                    [args |-> args,
                     size |-> posix_size(files.posix),
                     posix |-> [res |-> p.res, val |-> p.val],
                     memory |-> [res |-> m.res, val |-> m.val]])
    /\ UNCHANGED <<logVars, tmVars, frames, capacity, calls, pre_img, crashed,
                   rec_runs, rec_first, heap, slotted, clientVars>>

\* File::resize
Resize(new_size) ==
    LET p == posix_resize(files.posix, new_size)
        m == memory_resize(files.memory, new_size)
    IN SetFiles("resize", <<new_size>>, p, m)

\* File::read_block
ReadBlock(offset, size) ==
    LET p == posix_read_block(files.posix, offset, size)
        m == memory_read_block(files.memory, offset, size)
    IN SetFiles("read_block", <<offset, size>>, p, m)

\* File::write_block
WriteBlock(block, offset) ==
    /\ offset + Len(block) <= MaxFileLen
    /\ LET p == posix_write_block(files.posix, block, offset)
           m == memory_write_block(files.memory, block, offset)
       IN SetFiles("write_block", <<block, offset>>, p, m)

NextFile ==
    \/ \E n \in 0..MaxFileLen : Resize(n)
    \/ \E offset \in 0..MaxFileLen, size \in 0..MaxBlock : ReadBlock(offset, size)
    \/ \E block \in Blocks, offset \in 0..MaxFileLen : WriteBlock(block, offset)

SpecFile == InitFile /\ [][NextFile]_vars

---------------------------------------------------------------------------
(* The page id conversions under a client that packs a segment id and a    *)
(* page id and takes the overall id apart again.                           *)

SegmentIds == {0, 1, LimbMax}
U64Values == [1..U64Limbs -> {0, 1, LimbMax}]

\* the conversion applied: the ids packed, the overall id, the value returned
SetPageId(op, segment_id, page_id, overall, val) ==
    /\ last' = Last(op, None, None, Ok,
                    [segment_id |-> segment_id, page_id |-> page_id,
                     overall |-> overall, val |-> val])
    /\ UNCHANGED <<logVars, tmVars, frames, capacity, calls, pre_img, crashed,
                   rec_runs, rec_first, heap, slotted, files, clientVars>>

Converted == last.op \in {"get_overall_page_id", "get_segment_id", "get_segment_page_id"}

\* BufferManager::get_overall_page_id
GetOverallPageId(segment_id, page_id) ==
    LET overall == get_overall_page_id(segment_id, page_id)
    IN SetPageId("get_overall_page_id", segment_id, page_id, overall, overall)

\* BufferManager::get_segment_id of the overall id last packed
GetSegmentId ==
    /\ Converted
    /\ SetPageId("get_segment_id", last.pre.segment_id, last.pre.page_id,
                 last.pre.overall, get_segment_id(last.pre.overall))

\* BufferManager::get_segment_page_id of the overall id last packed
GetSegmentPageId ==
    /\ Converted
    /\ SetPageId("get_segment_page_id", last.pre.segment_id, last.pre.page_id,
                 last.pre.overall, get_segment_page_id(last.pre.overall))

NextPageId ==
    \/ \E s \in SegmentIds, p \in U64Values : GetOverallPageId(s, p)
    \/ GetSegmentId
    \/ GetSegmentPageId

SpecPageId == InitWith({MaxCapacity}) /\ [][NextPageId]_vars

---------------------------------------------------------------------------
(* The log manager under a client that calls its public operations in any  *)
(* order and for any transaction id: the log manager keeps no record of    *)
(* which transactions have begun or ended and accepts every call.          *)

\* LogManager::log_txn_begin for any transaction id
BeginAny(txn_id) ==
    /\ Records < MaxLog
    /\ SetLog(log_txn_begin(LM, txn_id))
    /\ last' = Last("log_txn_begin", Some(txn_id), None, Ok, EmptyMap)
    /\ calls' = <<>>
    /\ UNCHANGED <<tmVars, frames, capacity, heap, slotted, files, clientVars, pre_img,
                   crashed, rec_runs, rec_first>>

\* LogManager::log_update for any transaction id
UpdateAny(txn_id, page_id) ==
    /\ Records < MaxLog
    /\ SetLog(log_update(LM, txn_id, page_id, 1, 0, <<0>>, <<1>>))
    /\ last' = Last("log_update", Some(txn_id), Some(page_id), Ok, EmptyMap)
    /\ calls' = <<>>
    /\ UNCHANGED <<tmVars, frames, capacity, heap, slotted, files, clientVars, pre_img,
                   crashed, rec_runs, rec_first>>

\* LogManager::log_commit for any transaction id
CommitAny(txn_id) ==
    /\ Records < MaxLog
    /\ SetLog(log_commit(LM, txn_id))
    /\ last' = Last("log_commit", Some(txn_id), None, Ok, EmptyMap)
    /\ calls' = <<>>
    /\ UNCHANGED <<tmVars, frames, capacity, heap, slotted, files, clientVars, pre_img,
                   crashed, rec_runs, rec_first>>

\* LogManager::log_abort for any transaction id
AbortAny(txn_id) ==
    /\ Records < MaxLog
    /\ \E o \in log_abort(LM, txn_id, frames, capacity) :
          /\ SetLog(o.lg)
          /\ frames' = o.frames
          /\ last' = Last("log_abort", Some(txn_id), None, o.res, EmptyMap)
    /\ calls' = <<>>
    /\ UNCHANGED <<tmVars, capacity, heap, slotted, files, clientVars, pre_img, crashed,
                   rec_runs, rec_first>>

NextCalls ==
    \/ \E t \in TxnIds : BeginAny(t)
    \/ \E t \in TxnIds, p \in PageIds : UpdateAny(t, p)
    \/ \E t \in TxnIds : CommitAny(t)
    \/ \E t \in TxnIds : AbortAny(t)

SpecCalls == Init /\ [][NextCalls]_vars

---------------------------------------------------------------------------
(* The buffer pool under a client that fixes pages, writes into the frames *)
(* it keeps pinned (BufferFrame::get_data_mut) and unfixes them dirty.     *)

\* the client writes v over [offset, offset+length) of a frame it has pinned
WriteBytes(page_id, offset, length, v) ==
    /\ page_id \in DOMAIN frames
    /\ frames[page_id].pin_count > 0
    /\ frames' = [frames EXCEPT ![page_id].data =
                     CopyFromSlice(@, offset, length, Fill(length, v))]
    /\ written' = Without(written, page_id)
    /\ last' = Last("get_data_mut", None, Some(page_id), Ok, EmptyMap)
    /\ calls' = <<>>
    /\ UNCHANGED <<logVars, tmVars, capacity, heap, slotted, files, pool_owner,
                   frame_guards, running, pre_img, crashed, rec_runs, rec_first>>

\* BufferManager::unfix_page(frame, true) on a frame the client has pinned
UnfixDirty(page_id) ==
    /\ page_id \in DOMAIN frames
    /\ frames[page_id].pin_count > 0
    /\ LET o == unfix_page(frames, page_id, TRUE)
       IN /\ frames' = o.frames
          /\ written' = IF o.res = Ok THEN With(written, page_id, frames[page_id].data)
                        ELSE written
          /\ last' = Last("unfix_page", None, Some(page_id), o.res, EmptyMap)
    /\ calls' = <<>>
    /\ UNCHANGED <<logVars, tmVars, capacity, heap, slotted, files, pool_owner,
                   frame_guards, running, pre_img, crashed, rec_runs, rec_first>>

NextWrite ==
    \/ \E p \in PageIds, x \in BOOLEAN : Fix(p, x)
    \/ \E p \in PageIds, r \in Ranges, v \in 1..MaxByte : WriteBytes(p, r[1], r[2], v)
    \/ \E p \in PageIds : UnfixDirty(p)

SpecWrite == InitAnyCapacity /\ [][NextWrite]_vars

---------------------------------------------------------------------------
(* Threads sharing the pool as Database does, through Arc<Mutex<Buffer-    *)
(* Manager>>: a pool operation runs with exclusive access to the pool      *)
(* (&mut self) and locks frame mutexes inside it; fix_page hands the       *)
(* frame's Arc<Mutex<BufferFrame>> to the client, which can lock it        *)
(* without the pool.  A thread releases its frame guards before it calls   *)
(* the pool.                                                               *)

Threads == 1..MaxThreads

PoolOps == {"fix_page", "unfix_page", "flush_page", "discard_page"}

\* the outcomes of a pool operation
PoolCall(fr, cap, op, page_id, flag) ==
    CASE op = "fix_page" -> fix_page(fr, cap, page_id, flag)
      [] op = "unfix_page" -> {unfix_page(fr, page_id, flag)}
      [] op = "flush_page" -> {Out(Ok, flush_page(fr, page_id))}
      [] OTHER -> {discard_page(fr, page_id)}

\* the sets of frames whose mutex the operation may lock (frame.lock()) on
\* its way to outcome o: the frame of a resident page; for a fix_page that
\* has to make room, the frames can_evict_page and evict_page visit up to
\* and including the first unpinned one, in the map's unspecified order
LockedFrames(fr, cap, op, page_id, o) ==
    IF page_id \in DOMAIN fr THEN {{page_id}}
    ELSE IF op # "fix_page" \/ Cardinality(DOMAIN fr) < cap THEN {{}}
    ELSE IF ~can_evict_page(fr) THEN {DOMAIN fr}
    ELSE {S \cup ((DOMAIN fr) \ (DOMAIN o.frames)) :
             S \in SUBSET {q \in DOMAIN fr : fr[q].pin_count > 0}}

\* a client locks the mutex of a frame that is fixed
LockFrame(t, page_id) ==
    /\ t \notin DOMAIN running
    /\ page_id \in DOMAIN frames
    /\ frames[page_id].pin_count > 0
    /\ page_id \notin DOMAIN frame_guards
    /\ frame_guards' = With(frame_guards, page_id, t)
    /\ UNCHANGED <<logVars, tmVars, frames, capacity, heap, slotted, files, written,
                   pool_owner, running, last, calls, pre_img, crashed, rec_runs,
                   rec_first>>

\* the client drops its guard; the threads waiting for the mutex can go on
DropGuard(t, page_id) ==
    /\ page_id \in DOMAIN frame_guards
    /\ frame_guards[page_id] = t
    /\ frame_guards' = Without(frame_guards, page_id)
    /\ running' = [u \in DOMAIN running |->
                      IF running[u].waits = Some(page_id)
                      THEN [running[u] EXCEPT !.waits = None] ELSE running[u]]
    /\ UNCHANGED <<logVars, tmVars, frames, capacity, heap, slotted, files, written,
                   pool_owner, last, calls, pre_img, crashed, rec_runs, rec_first>>

\* a thread locks the pool and enters one of its operations
LockPool(t, op, page_id, flag) ==
    /\ pool_owner = None
    /\ t \notin DOMAIN running
    /\ \A q \in DOMAIN frame_guards : frame_guards[q] # t
    /\ op = "fix_page" /\ page_id \in DOMAIN frames => frames[page_id].pin_count < MaxPin
    /\ op = "unfix_page" => page_id \in DOMAIN frames
    /\ pool_owner' = Some(t)
    /\ running' = With(running, t, [op |-> op, page |-> page_id, flag |-> flag,
                                    waits |-> None])
    /\ UNCHANGED <<logVars, tmVars, frames, capacity, heap, slotted, files, written,
                   frame_guards, last, calls, pre_img, crashed, rec_runs, rec_first>>

\* the operation finds every frame mutex it locks free, completes and the
\* thread releases the pool
Run(t) ==
    /\ pool_owner = Some(t)
    /\ running[t].waits = None
    /\ LET c == running[t]
       IN \E o \in PoolCall(frames, capacity, c.op, c.page, c.flag) :
             /\ \E N \in LockedFrames(frames, capacity, c.op, c.page, o) :
                   N \cap DOMAIN frame_guards = {}
             /\ frames' = o.frames
             /\ last' = Last(c.op, None, Some(c.page), o.res, EmptyMap)
    /\ pool_owner' = None
    /\ running' = Without(running, t)
    /\ calls' = <<>>
    /\ UNCHANGED <<logVars, tmVars, capacity, heap, slotted, files, written,
                   frame_guards, pre_img, crashed, rec_runs, rec_first>>

\* frame.lock() inside the operation finds the mutex held by a client: the
\* thread waits for it with the pool still locked
Block(t) ==
    /\ pool_owner = Some(t)
    /\ running[t].waits = None
    /\ LET c == running[t]
       IN \E o \in PoolCall(frames, capacity, c.op, c.page, c.flag) :
          \E N \in LockedFrames(frames, capacity, c.op, c.page, o) :
          \E q \in N \cap DOMAIN frame_guards :
             running' = [running EXCEPT ![t].waits = Some(q)]
    /\ UNCHANGED <<logVars, tmVars, frames, capacity, heap, slotted, files, written,
                   pool_owner, frame_guards, last, calls, pre_img, crashed, rec_runs,
                   rec_first>>

NextThreads ==
    \/ \E t \in Threads, p \in PageIds : LockFrame(t, p)
    \/ \E t \in Threads, p \in PageIds : DropGuard(t, p)
    \/ \E t \in Threads, op \in PoolOps, p \in PageIds, x \in BOOLEAN : LockPool(t, op, p, x)
    \/ \E t \in Threads : Run(t)
    \/ \E t \in Threads : Block(t)

SpecThreads == InitAnyCapacity /\ [][NextThreads]_vars

---------------------------------------------------------------------------
(* Properties.                                                             *)

\* every record in the log file, whatever current_offset is
FileRecords == ReadFrom(log_file, Len(log_file), 0, <<>>).logs

\* the transactions with a Commit record in the file
CommittedInFile == analysis_phase(FileRecords).committed

\* the indices of the Update records of the file that cover byte i (from 1)
\* of the page
Covering(page_id, i) ==
    {k \in 1..Len(FileRecords) :
        /\ IsUpdate(FileRecords[k])
        /\ FileRecords[k].page_id[1] = page_id
        /\ FileRecords[k].offset[1] < i
        /\ i <= FileRecords[k].offset[1] + FileRecords[k].length[1]}

CommittedCovering(page_id, i) ==
    {k \in Covering(page_id, i) : FileRecords[k].txn_id \in CommittedInFile}

\* the Updates of losers: transactions without a Commit record
LoserCovering(page_id, i) ==
    {k \in Covering(page_id, i) : FileRecords[k].txn_id \notin CommittedInFile}

Max(S) == CHOOSE x \in S : \A y \in S : y <= x
Min(S) == CHOOSE x \in S : \A y \in S : x <= y

\* byte i of the page in Update record k's after- and before-image
AfterByte(k, i) == FileRecords[k].after_img[1][i - FileRecords[k].offset[1]]
BeforeByte(k, i) == FileRecords[k].before_img[1][i - FileRecords[k].offset[1]]

\* C1: after recovery, every byte of a resident page that Updates of loser
\* transactions cover (and no Update of a committed transaction covers) holds
\* the before-image of the earliest loser Update covering it, for every loser
\* in the log.
C1_LosersUndone ==
    (rec_runs = 1 /\ ~crashed /\ last.res = Ok) =>
        \A p \in DOMAIN frames : \A i \in 1..PageSize :
            (LoserCovering(p, i) # {} /\ CommittedCovering(p, i) = {}) =>
                frames[p].data[i] = BeforeByte(Min(LoserCovering(p, i)), i)

\* C2: after recovery of a log the transaction manager's session emitted under
\* the page lock, every byte an Update of a committed transaction covers holds
\* the after-image of the last committed Update covering it.
C2_CommittedPresent ==
    (rec_runs = 1 /\ ~crashed /\ last.res = Ok) =>
        \A p \in PageIds : \A i \in 1..PageSize :
            CommittedCovering(p, i) # {} =>
                PageBytes(frames, p)[i] = AfterByte(Max(CommittedCovering(p, i)), i)

\* C3: after the crash simulation (discard_all_pages, reset onto the reopened
\* log file) and recovery, the pool holds the after-images of the committed
\* transactions' Updates and the before-images of the others'.
C3_CrashRecovered ==
    (rec_runs = 1 /\ crashed /\ last.res = Ok) =>
        \A p \in PageIds : \A i \in 1..PageSize :
            /\ CommittedCovering(p, i) # {} =>
                  PageBytes(frames, p)[i] = AfterByte(Max(CommittedCovering(p, i)), i)
            /\ (CommittedCovering(p, i) = {} /\ LoserCovering(p, i) # {}) =>
                  PageBytes(frames, p)[i] = BeforeByte(Min(LoserCovering(p, i)), i)

\* C4: a second run of recovery right after the first leaves the buffer pool
\* (resident pages, bytes, dirty flags, pin counts) as the first run left it.
C4_RecoveryIdempotent ==
    rec_runs = 2 => frames = rec_first

\* C5: when abort_txn ends a transaction that logged and applied Updates,
\* every page it registered has the bytes it had before the transaction.
C5_AbortRestores ==
    (/\ last.op = "abort_txn"
     /\ last.res = Ok
     /\ \E k \in 1..Len(FileRecords) :
           IsUpdate(FileRecords[k]) /\ FileRecords[k].txn_id = last.txn[1])
    => \A p \in DOMAIN last.pre : PageBytes(frames, p) = last.pre[p]

\* C10: the number of active transactions is the number of Begin records
\* minus the number of Commit records minus the number of Abort records the
\* transaction manager has emitted.
C10_ActiveCount ==
    Cardinality(DOMAIN active_transactions) =
        get_total_log_records_of_type(LM, BeginRecord)
          - get_total_log_records_of_type(LM, CommitRecord)
          - get_total_log_records_of_type(LM, AbortRecord)

\* the step is commit_txn(t) or abort_txn(t) of a transaction of the active table
EndsActive(op) ==
    /\ last'.op = op
    /\ last'.txn # None
    /\ last'.txn[1] \in DOMAIN active_transactions

\* C6: every commit_txn of an active transaction T has called flush_page for
\* every page of T's modified set before it appends T's Commit record, which
\* is the last call it makes; and only commit_txn appends a Commit record.
C6_FlushBeforeCommit ==
    [][/\ EndsActive("commit_txn") =>
            LET T == last'.txn[1]
                n == Len(calls')
            IN /\ n >= 1
               /\ calls'[n] = Call("log_commit", T)
               /\ record_counts'[CommitRecord] = record_counts[CommitRecord] + 1
               /\ \A i \in 1..(n - 1) : calls'[i].fn = "flush_page"
               /\ \A p \in active_transactions[T].modified_pages :
                     \E i \in 1..(n - 1) : calls'[i] = Call("flush_page", p)
       /\ record_counts'[CommitRecord] > record_counts[CommitRecord] =>
            EndsActive("commit_txn")]_vars

\* a commit_txn that flushed two modified pages and then appended Commit
C6_Witness ==
    /\ last.op = "commit_txn"
    /\ last.res = Ok
    /\ Cardinality(DOMAIN last.pre) = 2
    /\ Len(calls) = 3
    /\ calls[3].fn = "log_commit"

\* the pages the active transactions hold locked are theirs in the lock table
LocksDisjoint ==
    \A t \in DOMAIN active_transactions :
        \A p \in active_transactions[t].locked_pages :
            /\ p \in DOMAIN page_locks
            /\ page_locks[p] = t
            /\ \A u \in DOMAIN active_transactions :
                  p \in active_transactions[u].locked_pages => u = t

\* C7: a page is locked by at most one transaction; add_modified_page(T2, p)
\* while another transaction T1 holds p fails with the locked error and leaves
\* the lock table and every transaction's sets as they were; add_modified_page
\* by the holder succeeds and changes nothing.
C7_SingleWriter ==
    /\ []LocksDisjoint
    /\ [][(last'.op = "add_modified_page" /\ last'.page[1] \in DOMAIN page_locks) =>
            LET p == last'.page[1]
                T == last'.txn[1]
            IN /\ UNCHANGED tmVars
               /\ page_locks[p] # T => last'.res = PageLocked(p, page_locks[p])
               /\ (page_locks[p] = T /\ T \in DOMAIN active_transactions) =>
                     last'.res = Ok]_vars

\* add_modified_page refused on a page another active transaction holds
C7_Witness ==
    /\ last.op = "add_modified_page"
    /\ last.page[1] \in DOMAIN page_locks
    /\ page_locks[last.page[1]] # last.txn[1]
    /\ page_locks[last.page[1]] \in DOMAIN active_transactions
    /\ last.txn[1] \in DOMAIN active_transactions
    /\ last.res = PageLocked(last.page[1], page_locks[last.page[1]])

\* C8: a lock of the table on page p held by T stays p -> T in every step
\* that is not commit_txn(T) or abort_txn(T).
C8_StrictTwoPhase ==
    [][\A p \in DOMAIN page_locks :
          (p \notin DOMAIN page_locks' \/ page_locks'[p] # page_locks[p]) =>
             /\ last'.op \in {"commit_txn", "abort_txn"}
             /\ last'.txn = Some(page_locks[p])]_vars

\* a transaction has ended and released its locks while another one still
\* holds the lock it took before
C8_Witness ==
    /\ last.op \in {"commit_txn", "abort_txn"}
    /\ last.res = Ok
    /\ last.pre # EmptyMap
    /\ \E p \in DOMAIN page_locks :
          /\ page_locks[p] # last.txn[1]
          /\ page_locks[p] \in DOMAIN active_transactions

\* C9: commit_txn or abort_txn of a transaction that is not in the active
\* table fails with "Transaction N not found", appends no log record, releases
\* no lock, and flushes or discards no page.
C9_EndedIsTerminal ==
    [][(/\ last'.op \in {"commit_txn", "abort_txn"}
        /\ last'.txn[1] \notin DOMAIN active_transactions) =>
            /\ last'.res = TxnNotFound(last'.txn[1])
            /\ UNCHANGED <<logVars, tmVars, frames>>
            /\ calls' = <<>>]_vars

\* commit_txn or abort_txn refused for a transaction that had ended before,
\* with locks of another transaction in the table
C9_Witness ==
    /\ last.op \in {"commit_txn", "abort_txn"}
    /\ last.txn[1] < next_txn_id
    /\ last.res = TxnNotFound(last.txn[1])
    /\ page_locks # EmptyMap
    /\ get_total_log_records_of_type(LM, CommitRecord)
         + get_total_log_records_of_type(LM, AbortRecord) >= 1

\* C11: the number of resident frames never exceeds the pool's capacity,
\* whatever fix_page, unfix_page, flush_page, flush_all_pages, discard_page,
\* discard_all_pages, rollback and recovery have done.
C11_WithinCapacity == Cardinality(DOMAIN frames) <= capacity

\* recovery of a log that updates more pages than the pool holds has filled
\* the pool
C11_Witness ==
    /\ last.op = "recovery"
    /\ last.res = Ok
    /\ Updates > capacity
    /\ Cardinality(DOMAIN frames) = capacity

C13_BufferFullWhenPinned ==
    [][(last'.op = "fix_page" /\ last'.page[1] \notin DOMAIN frames) =>
          LET p == last'.page[1]
              full == /\ Cardinality(DOMAIN frames) = capacity
                      /\ \A q \in DOMAIN frames : frames[q].pin_count > 0
          IN /\ last'.res = BufferFull <=> full
             /\ full => frames' = frames
             /\ ~full => /\ last'.res = Ok
                         /\ p \in DOMAIN frames'
                         /\ frames'[p].pin_count = 1]_vars

\* fix_page refused at a pool of capacity frames, all pinned
C13_Witness ==
    /\ last.op = "fix_page"
    /\ last.res = BufferFull
    /\ last.page[1] \notin DOMAIN frames
    /\ Cardinality(DOMAIN frames) = capacity
    /\ \A q \in DOMAIN frames : frames[q].pin_count > 0

\* C14: flush_page(p) of a resident page p that returns Ok leaves p's frame
\* clean, with its pin count and bytes unchanged.
C14_FlushClearsDirty ==
    [][(last'.op = "flush_page" /\ last'.res = Ok /\ last'.page[1] \in DOMAIN frames) =>
          LET p == last'.page[1]
          IN /\ p \in DOMAIN frames'
             /\ ~frames'[p].is_dirty
             /\ frames'[p].pin_count = frames[p].pin_count
             /\ frames'[p].data = frames[p].data]_vars

\* C15: unfix_page on a frame whose pin count is 0 returns Other and leaves
\* the frame as it was, whatever is_dirty is; no pin count is negative.
C15_UnfixAtZero ==
    /\ [](\A p \in DOMAIN frames : frames[p].pin_count >= 0)
    /\ [][(/\ last'.op = "unfix_page"
           /\ last'.page[1] \in DOMAIN frames
           /\ frames[last'.page[1]].pin_count = 0) =>
             /\ last'.res.kind = "Other"
             /\ frames' = frames]_vars

\* the records of the given type that the log manager reads back
ParsedOfType(ty) ==
    Cardinality({k \in 1..Len(read_all_logs(LM).logs) : read_all_logs(LM).logs[k].record_type = ty})

\* the step appends a record
Appends == current_offset' > current_offset

\* C16: each per-type counter counts the records of its type appended since
\* creation or the last reset (one more for every record appended, whose type
\* byte is at the old append offset; zero at a reset; the records read back,
\* type by type, as long as every record has its full frame), and
\* get_total_log_records is the sum of the per-type counters.
C16_CountersCount ==
    /\ [](get_total_log_records(LM) =
            get_total_log_records_of_type(LM, BeginRecord)
              + get_total_log_records_of_type(LM, CommitRecord)
              + get_total_log_records_of_type(LM, AbortRecord)
              + get_total_log_records_of_type(LM, UpdateRecord)
              + get_total_log_records_of_type(LM, CheckpointRecord))
    /\ [](get_total_log_records_of_type(LM, CheckpointRecord) = 0 =>
            \A ty \in RecordTypes : get_total_log_records_of_type(LM, ty) = ParsedOfType(ty))
    /\ [][/\ Appends =>
               record_counts' = [record_counts EXCEPT ![log_file'[current_offset + 1]] = @ + 1]
          /\ last'.op = "reset" => \A ty \in RecordTypes : record_counts'[ty] = 0
          /\ (~Appends /\ last'.op # "reset") => record_counts' = record_counts]_vars

\* Begin, two Updates and Commit: total 4, Update count 2
C16_Witness ==
    /\ get_total_log_records(LM) = 4
    /\ get_total_log_records_of_type(LM, UpdateRecord) = 2
    /\ get_total_log_records_of_type(LM, BeginRecord) = 1
    /\ get_total_log_records_of_type(LM, CommitRecord) = 1

\* C17: every appended record starts with its type byte, followed by the
\* 8-byte transaction id, and advances the append offset by its framed size:
\* 9 bytes for Begin, Commit, Abort and Checkpoint, 33 + 2*length for Update.
C17_FramedSize ==
    [][Appends =>
          LET ty == log_file'[current_offset + 1]
              adv == current_offset' - current_offset
          IN /\ ty \in RecordTypes
             /\ ty # UpdateRecord => adv = TagSize + U64Size
             /\ ty = UpdateRecord =>
                   adv = 33 + 2 * from_le_bytes(SubSeq(log_file', current_offset + 18,
                                                       current_offset + 25))
             /\ last'.txn # None =>
                   /\ adv >= TagSize + U64Size
                   /\ from_le_bytes(SubSeq(log_file', current_offset + 2,
                                           current_offset + 9)) = last'.txn[1]]_vars

\* C18: the log is append-only: in every step the bytes already in the log
\* file stay as they are and new records go behind them, also after reset has
\* rebound the manager to the reopened file.
C18_AppendOnly ==
    [][/\ Len(log_file') >= Len(log_file)
       /\ \A i \in 1..Len(log_file) : log_file'[i] = log_file[i]
       /\ Appends => current_offset >= Len(log_file)]_vars

\* C19: a cached page has at most one modifying transaction; get_page_mut,
\* insert_record or delete_record by a transaction other than the page's
\* current owner fails and leaves the page's slots, owner and dirty state as
\* they were; the owner of an owned page changes only in commit_transaction
\* or abort_transaction of the owning transaction.
C19_SingleOwner ==
    /\ [](\A p \in DOMAIN heap.pages : Len(heap.pages[p].modifying_txn) <= 1)
    /\ [][/\ (/\ last'.op \in {"get_page_mut", "insert_record", "delete_record"}
              /\ last'.page[1] \in DOMAIN heap.pages
              /\ heap.pages[last'.page[1]].modifying_txn \notin {None, last'.txn}) =>
                 LET p == last'.page[1]
                 IN /\ last'.res = BeingModified(p, heap.pages[p].modifying_txn[1])
                    /\ p \in DOMAIN heap'.pages
                    /\ heap'.pages[p] = heap.pages[p]
                    /\ (p \in heap'.dirty_pages) = (p \in heap.dirty_pages)
          /\ \A p \in DOMAIN heap.pages :
                (/\ heap.pages[p].modifying_txn # None
                 /\ \/ p \notin DOMAIN heap'.pages
                    \/ heap'.pages[p].modifying_txn # heap.pages[p].modifying_txn) =>
                    /\ last'.op \in {"commit_transaction", "abort_transaction"}
                    /\ last'.txn = heap.pages[p].modifying_txn]_vars

\* insert_record refused on a cached page that holds a record of the other
\* transaction, which still owns the page
C19_Witness ==
    /\ last.op = "insert_record"
    /\ last.page[1] \in DOMAIN heap.pages
    /\ LET info == heap.pages[last.page[1]]
       IN /\ info.modifying_txn \notin {None, last.txn}
          /\ info.is_dirty
          /\ info.page.slots[1] # NoRecord
          /\ last.res = BeingModified(last.page[1], info.modifying_txn[1])

\* C20: in every state of the heap segment a cached page that a transaction
\* owns is dirty.
C20_OwnedIsDirty ==
    \A p \in DOMAIN heap.pages :
        heap.pages[p].modifying_txn # None => heap.pages[p].is_dirty

\* the page ids that have an entry in the access queue
Queued(h) == {h.page_access_order[i] : i \in 1..Len(h.page_access_order)}

\* C21: in every state of the heap segment the set of page ids in the access
\* queue equals the set of page ids in the cache map.
C21_QueueIsCache == Queued(heap) = DOMAIN heap.pages

\* the cache is at capacity and every cached page is dirty or owned
NoRoom(h) ==
    /\ Cardinality(DOMAIN h.pages) >= h.max_pages_in_memory
    /\ \A p \in DOMAIN h.pages : h.pages[p].is_dirty \/ h.pages[p].modifying_txn # None

\* C22: eviction always terminates: no call on the segment runs forever, and
\* a call of allocate_page, get_page or get_page_mut that needs room for a
\* page while the cache is at capacity and every cached page is dirty or
\* owned returns BufferFull.
C22_EvictionTerminates ==
    /\ [](last.res # Diverges)
    /\ [][(/\ last'.op \in {"allocate_page", "get_page", "get_page_mut"}
           /\ last'.page # None => last'.page[1] \notin DOMAIN heap.pages
           /\ NoRoom(heap)) => last'.res = BufferFull]_vars

\* C23: after commit_transaction(T) has succeeded no cached page is owned by
\* T, and every page T had modified is cached clean, out of the dirty set,
\* with the image at page_id * page_size parsing to the cached page, so that
\* get_page on a segment reopened over the file returns the committed page.
C23_CommitDurable ==
    [][(last'.op = "commit_transaction" /\ last'.res = Ok) =>
          LET T == last'.txn[1]
          IN /\ OwnedBy(heap', T) = {}
             /\ \A p \in DOMAIN Modified(T) :
                   /\ p \in DOMAIN heap'.pages
                   /\ ~heap'.pages[p].is_dirty
                   /\ p \notin heap'.dirty_pages
                   /\ read_page_from_disk(heap', p) =
                         [res |-> Ok, page |-> heap'.pages[p].page]
                   /\ get_page(Reopened(heap'), p).val = <<heap'.pages[p].page>>]_vars

\* a successful commit of a transaction that had inserted a record into one
\* page and deleted the record of another; both read back from the file so
C23_Witness ==
    /\ last.op = "commit_transaction"
    /\ last.res = Ok
    /\ \E p, q \in DOMAIN last.pre :
          /\ last.pre[p].slots[1] = NoRecord
          /\ last.pre[q].slots[1] # NoRecord
          /\ get_page(Reopened(heap), p).val[1].slots[1] # NoRecord
          /\ get_page(Reopened(heap), q).val[1].slots[1] = NoRecord

\* C24: after abort_transaction(T) has succeeded no page is owned by T, and
\* every page T had modified reads back, with get_page, with the slots it had
\* before T first modified it, whatever calls (flush among them) were made
\* between that first modification and the abort.
C24_AbortRestores ==
    [][(last'.op = "abort_transaction" /\ last'.res = Ok) =>
          LET T == last'.txn[1]
          IN /\ OwnedBy(heap', T) = {}
             /\ \A p \in DOMAIN Modified(T) :
                   LET g == get_page(heap', p)
                   IN /\ g.res = Ok
                      /\ g.val[1].slots = Modified(T)[p].slots]_vars

\* page_id reads as a new page: the cached page, if there is one, and the
\* page parsed from the file both have num_slots_per_page slots, all empty
ReadsNew(h, page_id) ==
    LET new_page == NewSlottedPage(page_id, h.num_slots_per_page)
    IN /\ page_id \in DOMAIN h.pages => h.pages[page_id].page = new_page
       /\ read_page_from_disk(h, page_id) = [res |-> Ok, page |-> new_page]

\* the step wrote the file or put another page into the cache for page_id
Rewritten(page_id) ==
    \/ heap'.file # heap.file
    \/ /\ page_id \in DOMAIN heap'.pages
       /\ \/ page_id \notin DOMAIN heap.pages
          \/ heap'.pages[page_id].page # heap.pages[page_id].page

\* C25: a page id that allocate_page returns reads, from the cache and from
\* the file, as a page of slots_per_page empty slots, and a page that reads
\* so keeps reading so through every call that is not a successful
\* insert_record on it: no eviction, reload after abort, flush, commit or
\* call on another page that writes the file or replaces the cached page
\* changes what it reads as.
C25_AllocatedReadsEmpty ==
    [][/\ (last'.op = "allocate_page" /\ last'.res = Ok) =>
             ReadsNew(heap', heap.next_page_id)
       /\ \A p \in HeapPageIds :
             (/\ ~(/\ last'.op = "insert_record"
                   /\ last'.page = Some(p)
                   /\ last'.res = Ok)
              /\ Rewritten(p)
              /\ ReadsNew(heap, p)) => ReadsNew(heap', p)]_vars

\* an allocated page that was never written to again was evicted and has
\* been read back as new from the file, which holds a record in another page
C25_Witness ==
    /\ last.op = "get_page"
    /\ last.res = Ok
    /\ heap.max_pages_in_memory = 1
    /\ LET p == last.page[1]
       IN /\ p \in DOMAIN heap.pages
          /\ ~heap.pages[p].is_dirty
          /\ ReadsNew(heap, p)
          /\ \E q \in HeapPageIds \ {p} :
                /\ read_page_from_disk(heap, q).res = Ok
                /\ read_page_from_disk(heap, q).page.slots[1] # NoRecord

\* the indexes (from 1) of the empty slots of the page
EmptySlots(page) == {i \in 1..Len(page.slots) : page.slots[i] = NoRecord}

\* C26: allocate_slot(rid) writes rid into the empty slot of the smallest
\* index and returns that index, or returns no index and changes nothing when
\* every slot is occupied; allocate_slot and deallocate_slot change neither
\* the number of slots nor any slot other than the one they target.
C26_SlotDiscipline ==
    [][/\ last'.op = "allocate_slot" =>
             /\ Len(slotted'.slots) = Len(slotted.slots)
             /\ IF EmptySlots(slotted) = {}
                THEN last'.pre.val = <<>> /\ slotted' = slotted
                ELSE LET i == Min(EmptySlots(slotted))
                     IN /\ last'.pre.val = <<i - 1>>
                        /\ slotted'.slots[i] = <<last'.pre.arg>>
                        /\ \A j \in (1..Len(slotted.slots)) \ {i} :
                              slotted'.slots[j] = slotted.slots[j]
       /\ last'.op = "deallocate_slot" =>
             /\ Len(slotted'.slots) = Len(slotted.slots)
             /\ \A j \in (1..Len(slotted.slots)) \ {last'.pre.arg + 1} :
                   slotted'.slots[j] = slotted.slots[j]
             /\ last'.res = Ok => slotted'.slots[last'.pre.arg + 1] = NoRecord]_vars

\* allocate_slot has returned index 1 on a page of three slots whose slot 0
\* holds another record and whose slot 2 is empty
C26_Witness ==
    /\ last.op = "allocate_slot"
    /\ last.pre.val = <<1>>
    /\ Len(slotted.slots) = 3
    /\ slotted.slots[1] \notin {NoRecord, <<last.pre.arg>>}
    /\ slotted.slots[2] = <<last.pre.arg>>
    /\ slotted.slots[3] = NoRecord

\* C27: for every page, whatever its slot count and its mix of empty and
\* occupied slots, deserialize(serialize(page)) succeeds and yields the same
\* page id and the same slots; the bytes are a function of the page id and
\* the slots alone.
C27_RoundTrip ==
    /\ [](deserialize(serialize(slotted)) = [res |-> Ok, page |-> slotted])
    /\ [][last'.op = "deserialize" =>
             /\ last'.res = Ok
             /\ slotted' = slotted
             /\ last'.pre.arg = serialize(slotted')]_vars

\* a page with a wide id and three slots, one empty between two that hold a
\* small and a wide record id, has been written out and parsed back
C27_Witness ==
    /\ last.op = "deserialize"
    /\ last.res = Ok
    /\ slotted.page_id = WideId
    /\ slotted.slots = <<<<1>>, NoRecord, <<WideId>>>>
    /\ Len(last.pre.arg) = 2 * U64Size + 3 * TagSize + 2 * U64Size

\* what a write of the block at the offset makes of the bytes of a file
Written(before, after, block, offset) ==
    /\ Len(after) = Max({Len(before), offset + Len(block)})
    /\ SubSeq(after, offset + 1, offset + Len(block)) = block
    /\ \A i \in 1..Len(before) :
          i \notin (offset + 1)..(offset + Len(block)) => after[i] = before[i]
    /\ \A i \in (Len(before) + 1)..offset : after[i] = 0

\* C28: on a WRITE file of either variant, after write_block(b, off) succeeds
\* the size is max(previous size, off + |b|), read_block(off, |b|) returns b,
\* the bytes outside [off, off + |b|) that existed before are unchanged, and
\* the gap the extension created reads as zeros.
C28_WriteBlock ==
    [][(last'.op = "write_block" /\ files.posix.mode = WRITE) =>
          LET block == last'.pre.args[1]
              offset == last'.pre.args[2]
              size == Max({last'.pre.size, offset + Len(block)})
          IN /\ last'.pre.posix.res = Ok =>
                   /\ posix_size(files'.posix) = size
                   /\ posix_read_block(files'.posix, offset, Len(block)) =
                         FOut(Ok, files'.posix, block)
                   /\ Written(files.posix.file, files'.posix.file, block, offset)
             /\ last'.pre.memory.res = Ok =>
                   /\ memory_size(files'.memory) = size
                   /\ memory_read_block(files'.memory, offset, Len(block)) =
                         FOut(Ok, files'.memory, block)
                   /\ Written(files.memory.data, files'.memory.data, block, offset)]_vars

\* a block of two bytes has been written to both WRITE files past the end of
\* the bytes they held, leaving a gap of zeros after a byte that is not zero
C28_Witness ==
    /\ last.op = "write_block"
    /\ files.posix.mode = WRITE
    /\ last.pre.posix.res = Ok
    /\ last.pre.memory.res = Ok
    /\ Len(last.pre.args[1]) = 2
    /\ last.pre.size = 1
    /\ last.pre.args[2] = 2
    /\ files.posix.file[1] # 0
    /\ files.posix.file[2] = 0
    /\ files.memory.data = files.posix.file

\* C29: on files opened in READ mode both variants fail every resize(n),
\* n equal to the current size included, and every write_block, and leave
\* size and contents unchanged; the two variants return the same outcome for
\* the same sequence of operations.
C29_ReadOnly ==
    [][(last'.op \in {"resize", "read_block", "write_block"}
          /\ files.posix.mode = READ) =>
          /\ last'.pre.posix = last'.pre.memory
          /\ last'.op \in {"resize", "write_block"} =>
                /\ last'.pre.posix.res # Ok
                /\ last'.pre.memory.res # Ok
                /\ files' = files]_vars

\* C30: the packing of page ids is exact in both directions: for every
\* segment_id (u16) and every page_id (u64) that get_overall_page_id accepts,
\* get_segment_id of the overall id is segment_id and get_segment_page_id of
\* it is page_id.
C30_PackingExact ==
    /\ last.op = "get_segment_id" => last.pre.val = last.pre.segment_id
    /\ last.op = "get_segment_page_id" => last.pre.val = last.pre.page_id

\* the indices of the Update records of the transaction that cover byte i
\* (from 1) of the page
TxnCovering(txn_id, page_id, i) ==
    {k \in Covering(page_id, i) : FileRecords[k].txn_id = txn_id}

\* the pages the transaction has an Update record for
UpdatedBy(txn_id) ==
    {FileRecords[k].page_id[1] :
        k \in {j \in 1..Len(FileRecords) :
                  IsUpdate(FileRecords[j]) /\ FileRecords[j].txn_id = txn_id}}

\* C31: the rollback that log_abort(T) runs undoes T's Update records in
\* reverse log order and stops at T's Begin: when it has returned, every byte
\* that Updates of T cover holds the before-image of T's earliest Update
\* covering it, and no page that only other transactions updated is written.
C31_RollbackRestores ==
    /\ []((last.op = "log_abort" /\ last.res = Ok) =>
            \A p \in RecPages : \A i \in 1..PageSize :
                TxnCovering(last.txn[1], p, i) # {} =>
                    PageBytes(frames, p)[i] =
                        BeforeByte(Min(TxnCovering(last.txn[1], p, i)), i))
    /\ [][(last'.op = "log_abort" /\ last'.res = Ok) =>
            \A p \in RecPages \ UpdatedBy(last'.txn[1]) :
                p \in DOMAIN frames' =>
                    p \in DOMAIN frames /\ frames'[p] = frames[p]]_vars

\* C35: every entry p -> T of the page-lock table names a transaction T of
\* the active table that has p in its locked set; so once commit_txn(T) or
\* abort_txn(T) has returned, with Ok or with an error, no entry names T.
C35_LockTableConsistent ==
    \A p \in DOMAIN page_locks :
        /\ page_locks[p] \in DOMAIN active_transactions
        /\ p \in active_transactions[page_locks[p]].locked_pages

\* C36: after any sequence of HeapSegment operations the in-memory cache
\* holds at most max_pages_in_memory pages.
C36_CacheWithinBound ==
    Cardinality(DOMAIN heap.pages) <= heap.max_pages_in_memory

\* C37: the dirty set is exactly the set of cached pages whose dirty flag is
\* true; so after abort_transaction(T) the pages T had modified are neither
\* flagged dirty nor in the dirty set.
C37_DirtySetIsFlags ==
    heap.dirty_pages = {p \in DOMAIN heap.pages : heap.pages[p].is_dirty}

\* C38: rollback and recovery pin and unpin in balance: when log_abort or
\* recovery returns, with Ok or with an error, every frame of the pool has
\* the pin count it had before the call, a page the call brought in having
\* pin count 0.
C38_PinsBalanced ==
    [][(last'.op \in {"log_abort", "recovery"} /\ last'.res.kind # "Panic") =>
          \A p \in DOMAIN frames' :
              frames'[p].pin_count =
                  IF p \in DOMAIN frames THEN frames[p].pin_count ELSE 0]_vars

\* log_abort has returned Ok after undoing an Update on a page it left
\* unpinned while a client keeps another page pinned
C38_Witness ==
    /\ last.op = "log_abort"
    /\ last.res = Ok
    /\ \E p \in DOMAIN frames, q \in DOMAIN frames :
          /\ frames[p].pin_count > 0
          /\ frames[q].pin_count = 0
          /\ frames[q].is_dirty
          /\ q \in UpdatedBy(last.txn[1])

\* a record of the same transaction and of one of the types lies before
\* record k of the file
Earlier(k, types) ==
    \E j \in 1..(k - 1) :
        /\ FileRecords[j].txn_id = FileRecords[k].txn_id
        /\ FileRecords[j].record_type \in types

\* C33: per transaction id the log follows None -> Active -> Committed or
\* Aborted, whatever the calls made on the log manager: an Update, Commit or
\* Abort record of T is appended only after T's Begin and before T's Commit
\* or Abort, and no record of T is appended after T's Commit or Abort.
C33_LogFollowsLifecycle ==
    \A k \in 1..Len(FileRecords) :
        /\ FileRecords[k].record_type \in {UpdateRecord, CommitRecord, AbortRecord} =>
              Earlier(k, {BeginRecord})
        /\ ~Earlier(k, {CommitRecord, AbortRecord})

\* the type of the record an operation of the log manager appends
RecordTypeOf(op) ==
    CASE op = "log_txn_begin" -> BeginRecord
      [] op = "log_commit" -> CommitRecord
      [] op = "log_abort" -> AbortRecord
      [] op = "log_update" -> UpdateRecord
      [] op = "log_checkpoint" -> CheckpointRecord

\* C39: the log round trip: whatever sequence of log_txn_begin, log_update,
\* log_commit, log_abort and log_checkpoint calls is made, the record list
\* that rollback and recovery parse from the log is the sequence of records
\* appended, in order: each call adds one record to the parsed list, with the
\* call's type, transaction id, page id, offset, length and images (the
\* client's Updates are at offset 0, from zeros to ones), and leaves the
\* records parsed before as they were.
C39_ParsedIsAppended ==
    [][(Appends /\ ~crashed') =>
          LET before == read_all_logs(LM)
              after == ReadFrom(log_file', current_offset', 0, <<>>)
              n == Len(before.logs)
          IN /\ after.res = Ok
             /\ Len(after.logs) = n + 1
             /\ SubSeq(after.logs, 1, n) = before.logs
             /\ after.logs[n + 1].record_type = RecordTypeOf(last'.op)
             /\ after.logs[n + 1].log_offset = current_offset
             /\ last'.txn # None => after.logs[n + 1].txn_id = last'.txn[1]
             /\ last'.op = "log_update" =>
                   /\ after.logs[n + 1].page_id = last'.page
                   /\ after.logs[n + 1].offset = <<0>>
                   /\ 33 + 2 * after.logs[n + 1].length[1] =
                         current_offset' - current_offset
                   /\ after.logs[n + 1].before_img =
                         <<Fill(after.logs[n + 1].length[1], 0)>>
                   /\ after.logs[n + 1].after_img =
                         <<Fill(after.logs[n + 1].length[1], 1)>>]_vars

\* C40: allocate_page never returns the id of a page that already exists in
\* the segment's file and never overwrites the image of a page written
\* before: the ids allocated over the life of the file are distinct and
\* increasing, also after the segment has been reopened over the file.
C40_AllocatesFreshPage ==
    [][(last'.op = "allocate_page" /\ last'.res = Ok) =>
          /\ Len(heap.file) <= heap.next_page_id * heap.page_size
          /\ SubSeq(heap'.file, 1, Len(heap.file)) = heap.file]_vars

\* C32: the bytes a client wrote into a page it had pinned and then unfixed
\* with is_dirty = true are the bytes a later fix_page of the page returns,
\* also when the page was evicted in between to make room.
C32_WrittenBytesReturned ==
    [][(/\ last'.op = "fix_page"
        /\ last'.res = Ok
        /\ last'.page[1] \in DOMAIN written) =>
          frames'[last'.page[1]].data = written[last'.page[1]]]_vars

\* C34: no thread executing fix_page, unfix_page, flush_page, discard_page or
\* an eviction waits for a frame mutex while it holds exclusive access to the
\* pool, so a client that keeps a frame guard cannot block another thread's
\* pool operation.
C34_NoFrameWaitUnderPool ==
    \A t \in DOMAIN running : pool_owner = Some(t) => running[t].waits = None

====
